---- MODULE Spec2Model ----
(***************************************************************************)
(* CommitView: worktree lifecycle manager (WorktreeManager.ts), path       *)
(* naming (tempDir.ts) and the VCS gateway (GitService.ts).                *)
(*                                                                         *)
(* The durable registry (globalState) is assumed to accept every write;   *)
(* the VCS tool and the filesystem may fail.                               *)
(***************************************************************************)
EXTENDS Integers, Sequences, FiniteSets, TLC

VARIABLES registry, fs, gitMeta, now, touched, last, pairs, link, procs

vars == <<registry, fs, gitMeta, now, touched, last, pairs, link, procs>>

----------------------------------------------------------------------------
(* Bounds of the model                                                     *)

\* records the registry may hold at once
MaxRecords == 2

\* how far the clock is followed past the staleness threshold, in ms
MaxSkewMs == 1

\* how many links of one linking pass the environment lets fail
MaxFaults == 1

\* the versions of the VCS tool that are tried: major and minor numbers
MaxMajor == 3
MaxMinor == 30

----------------------------------------------------------------------------
(* Strings                                                                 *)
(*                                                                         *)
(* The state holds paths, names and revisions as strings.  The string      *)
(* functions of the code work on their spelling, a sequence of             *)
(* one-character strings: Spell gives the spelling of a string of the      *)
(* model and Intern the string a computed spelling belongs to.             *)

Spell(s) ==
  CASE s = "" -> <<>>
    [] s = "/tmp" -> <<"/","t","m","p">>
    [] s = "/h/my.p" -> <<"/","h","/","m","y",".","p">>
    [] s = "/w/my-p" -> <<"/","w","/","m","y","-","p">>
    [] s = "my.p" -> <<"m","y",".","p">>
    [] s = "my-p" -> <<"m","y","-","p">>
    [] s = "a1b2c3d4" -> <<"a","1","b","2","c","3","d","4">>
    [] s = "e5f6a7b8" -> <<"e","5","f","6","a","7","b","8">>
    [] s = "a1b2c3d" -> <<"a","1","b","2","c","3","d">>
    [] s = "e5f6a7b" -> <<"e","5","f","6","a","7","b">>
    [] s = "/tmp/temp-my-p-a1b2c3d" ->
         <<"/","t","m","p","/","t","e","m","p","-","m","y","-","p","-",
           "a","1","b","2","c","3","d">>
    [] s = "/tmp/temp-my-p-e5f6a7b" ->
         <<"/","t","m","p","/","t","e","m","p","-","m","y","-","p","-",
           "e","5","f","6","a","7","b">>
    [] s = "/h/temp-x" -> <<"/","h","/","t","e","m","p","-","x">>
    [] s = "/h/docs" -> <<"/","h","/","d","o","c","s">>
    [] s = "Fix it" -> <<"F","i","x"," ","i","t">>
    [] s = ".env" -> <<".","e","n","v">>
    [] s = ".Env.local" -> <<".","E","n","v",".","l","o","c","a","l">>
    [] s = "xenv" -> <<"x","e","n","v">>
    [] s = "setup.ts" -> <<"s","e","t","u","p",".","t","s">>
    [] s = "config" -> <<"c","o","n","f","i","g">>
    [] s = ".npmrc" -> <<".","n","p","m","r","c">>
    [] s = "node_modules" ->
         <<"n","o","d","e","_","m","o","d","u","l","e","s">>
    [] s = ".git" -> <<".","g","i","t">>
    [] s = ".github" -> <<".","g","i","t","h","u","b">>
    [] s = "pkg" -> <<"p","k","g">>
    [] s = ".env.*" -> <<".","e","n","v",".","*">>
    [] s = ".yarnrc" -> <<".","y","a","r","n","r","c">>
    [] s = ".nvmrc" -> <<".","n","v","m","r","c">>
    [] s = "venv" -> <<"v","e","n","v">>
    [] s = ".venv" -> <<".","v","e","n","v">>
    [] s = "env" -> <<"e","n","v">>
    [] s = "__pycache__" -> <<"_","_","p","y","c","a","c","h","e","_","_">>
    [] s = "*.ts" -> <<"*",".","t","s">>
    [] s = "con?ig" -> <<"c","o","n","?","i","g">>
    [] s = "test.js" -> <<"t","e","s","t",".","j","s">>

Strings ==
  {"", "/tmp", "/h/my.p", "/w/my-p", "my.p", "my-p", "a1b2c3d4", "e5f6a7b8",
   "a1b2c3d", "e5f6a7b", "/tmp/temp-my-p-a1b2c3d", "/tmp/temp-my-p-e5f6a7b",
   "/h/temp-x", "/h/docs", "Fix it"}

Intern(cs) == CHOOSE s \in Strings : Spell(s) = cs

Lower == {"a","b","c","d","e","f","g","h","i","j","k","l","m",
          "n","o","p","q","r","s","t","u","v","w","x","y","z"}
Upper == {"A","B","C","D","E","F","G","H","I","J","K","L","M",
          "N","O","P","Q","R","S","T","U","V","W","X","Y","Z"}
Digits == {"0","1","2","3","4","5","6","7","8","9"}

\* String.prototype.startsWith, on spellings
startsWith(cs, prefix) ==
  /\ Len(cs) >= Len(prefix)
  /\ SubSeq(cs, 1, Len(prefix)) = prefix

\* String.prototype.substring(0, n), on a spelling (or slice(0, n) of a list)
substring0(cs, n) == IF Len(cs) <= n THEN cs ELSE SubSeq(cs, 1, n)

\* index of the last "/" of a spelling, 0 when there is none
RECURSIVE LastSlash(_, _)
LastSlash(cs, i) ==
  IF i = 0 THEN 0
  ELSE IF cs[i] = "/" THEN i
  ELSE LastSlash(cs, i - 1)

\* path.basename: the spelling of the last component of path p
basename(p) ==
  SubSeq(Spell(p), LastSlash(Spell(p), Len(Spell(p))) + 1, Len(Spell(p)))

\* path.join of a directory and one name, as spellings
pathJoin(dir, name) == dir \o <<"/">> \o name

----------------------------------------------------------------------------
(* Path naming (tempDir.ts)                                                *)

\* os.tmpdir()
getTempDir == "/tmp"

\* repoName.replace(/[^a-zA-Z0-9-_]/g, '-')
sanitize(cs) ==
  [i \in 1..Len(cs) |->
     IF cs[i] \in Lower \cup Upper \cup Digits \cup {"-", "_"} THEN cs[i] ELSE "-"]

RepoNameMax == 20

TempPrefix == <<"t","e","m","p","-">>
CommitviewPrefix == <<"c","o","m","m","i","t","v","i","e","w","-">>

UpperSeq == <<"A","B","C","D","E","F","G","H","I","J","K","L","M",
              "N","O","P","Q","R","S","T","U","V","W","X","Y","Z">>
LowerSeq == <<"a","b","c","d","e","f","g","h","i","j","k","l","m",
              "n","o","p","q","r","s","t","u","v","w","x","y","z">>

\* String.prototype.toLowerCase, character by character
toLowerCase(cs) ==
  [i \in 1..Len(cs) |->
     IF cs[i] \in Upper
     THEN LowerSeq[CHOOSE k \in 1..26 : UpperSeq[k] = cs[i]]
     ELSE cs[i]]

IsAlnumOrSpace(c) == c \in Lower \cup Upper \cup Digits \cup {" "}

\* .trim().split(/\s+/): the non-empty runs between blanks
RECURSIVE splitWords(_, _, _)
splitWords(cs, i, cur) ==
  IF i > Len(cs) THEN (IF cur = <<>> THEN <<>> ELSE <<cur>>)
  ELSE IF cs[i] = " "
       THEN (IF cur = <<>> THEN <<>> ELSE <<cur>>) \o splitWords(cs, i + 1, <<>>)
       ELSE splitWords(cs, i + 1, Append(cur, cs[i]))

\* Array.prototype.join('-')
RECURSIVE joinDash(_)
joinDash(ws) ==
  IF ws = <<>> THEN <<>>
  ELSE IF Len(ws) = 1 THEN ws[1]
  ELSE ws[1] \o <<"-">> \o joinDash(Tail(ws))

SubjectWords == 3
SubjectMax == 25

\* the short readable form of a commit subject
shortMessageOf(commitSubject) ==
  substring0(
    joinDash(substring0(
      splitWords(SelectSeq(toLowerCase(Spell(commitSubject)), IsAlnumOrSpace),
                 1, <<>>),
      SubjectWords)),
    SubjectMax)

\* an absent (undefined) or empty commitSubject
Undefined == ""

\* generateWorktreePath: temp-{repo}-{sha}-{message}, or temp-{repo}-{sha}
\* when there is no subject.  repoName and shortSha are spellings.
generateWorktreePath(repoName, shortSha, commitSubject) ==
  LET safeName == substring0(sanitize(repoName), RepoNameMax)
      shortMessage == IF commitSubject # Undefined
                      THEN shortMessageOf(commitSubject) ELSE <<>>
      folderName == IF shortMessage # <<>>
                    THEN TempPrefix \o safeName \o <<"-">> \o shortSha
                                    \o <<"-">> \o shortMessage
                    ELSE TempPrefix \o safeName \o <<"-">> \o shortSha
  IN Intern(pathJoin(Spell(getTempDir), folderName))

\* the naming predicate, computed once for every string of the model
TempPathTable ==
  [dirPath \in Strings |->
     \/ startsWith(basename(dirPath), TempPrefix)
     \/ startsWith(basename(dirPath), CommitviewPrefix)]

\* isCommitViewTempPath accepting every name
isCommitViewTempPathAnyName(dirPath) == TRUE

\* isCommitViewTempPath knowing only the prefix of the earlier naming scheme
isCommitViewTempPathOldPrefix(dirPath) ==
  startsWith(basename(dirPath), CommitviewPrefix)

isCommitViewTempPath(dirPath) == TempPathTable[dirPath]

----------------------------------------------------------------------------
(* The world the model explores                                            *)

\* two clones of one project: the directory names differ only in a
\* character that the sanitiser rewrites
RepoA == "/h/my.p"
RepoB == "/w/my-p"
Repos == {RepoA, RepoB}

Sha1 == "a1b2c3d4"
Sha2 == "e5f6a7b8"
Shas == {Sha1, Sha2}

\* the revisions present in the history of a repository: the second clone
\* has not fetched Sha2
CommitsOf(repo) == IF repo = RepoA THEN {Sha1, Sha2} ELSE {Sha1}

Messages == {"Fix it"}

\* directories of the user, one of them named like a checkout
UserTempDir == "/h/temp-x"
UserDocsDir == "/h/docs"
UserDirs == {UserTempDir, UserDocsDir}

ShortShaLen == 7

CheckoutPaths ==
  {generateWorktreePath(basename(r), substring0(Spell(s), ShortShaLen), Undefined) :
     r \in Repos, s \in Shas}

AllPaths == CheckoutPaths \cup Repos \cup UserDirs

\* fs[p]: "none" (no entry), "user" (a directory of the user, a repository
\* included) or "checkout" (a working tree the VCS tool created)
exists(f, p) == f[p] # "none"

----------------------------------------------------------------------------
(* Events of one operation, in the order the calls were made               *)

Ev(step, path, ok) == [step |-> step, path |-> path, ok |-> ok]

----------------------------------------------------------------------------
(* VCS gateway (GitService.ts) and removeDirectory (tempDir.ts)            *)

\* getRepoName: the basename of the repository root; raises outside a
\* repository
getRepoNameOk(f, repoPath) == exists(f, repoPath)
getRepoName(repoPath) == basename(repoPath)

\* commitExists: rev-parse --verify, any failure read as "no"
commitExists(f, repoPath, sha) ==
  exists(f, repoPath) /\ sha \in CommitsOf(repoPath)

\* GitService.createWorktree handing the revision to worktree add without
\* verifying it first
gitCreateWorktreeUnverified(st, repoPath, worktreePath, commitSha, toolOk) ==
  IF exists(st.fs, worktreePath)
  THEN [ok |-> FALSE, err |-> "WORKTREE_ALREADY_EXISTS", called |-> TRUE,
        fs |-> st.fs, gitMeta |-> st.gitMeta]
  ELSE IF \/ ~commitExists(st.fs, repoPath, commitSha)
          \/ <<repoPath, worktreePath>> \in st.gitMeta
          \/ ~toolOk
  THEN [ok |-> FALSE, err |-> "WORKTREE_CREATION_FAILED", called |-> TRUE,
        fs |-> st.fs, gitMeta |-> st.gitMeta]
  ELSE [ok |-> TRUE, err |-> "none", called |-> TRUE,
        fs |-> [st.fs EXCEPT ![worktreePath] = "checkout"],
        gitMeta |-> st.gitMeta \cup {<<repoPath, worktreePath>>}]

\* GitService.createWorktree without the test of the tool's message for
\* "already exists"
gitCreateWorktreeUnclassified(st, repoPath, worktreePath, commitSha, toolOk) ==
  IF ~commitExists(st.fs, repoPath, commitSha)
  THEN [ok |-> FALSE, err |-> "COMMIT_NOT_FOUND", called |-> FALSE,
        fs |-> st.fs, gitMeta |-> st.gitMeta]
  ELSE IF \/ exists(st.fs, worktreePath)
          \/ <<repoPath, worktreePath>> \in st.gitMeta
          \/ ~toolOk
  THEN [ok |-> FALSE, err |-> "WORKTREE_CREATION_FAILED", called |-> TRUE,
        fs |-> st.fs, gitMeta |-> st.gitMeta]
  ELSE [ok |-> TRUE, err |-> "none", called |-> TRUE,
        fs |-> [st.fs EXCEPT ![worktreePath] = "checkout"],
        gitMeta |-> st.gitMeta \cup {<<repoPath, worktreePath>>}]

\* GitService.createWorktree.  toolOk: worktree add meets no other failure.
\* The tool refuses a target that exists ("already exists") and a target
\* still registered in the repository's worktree metadata.
gitCreateWorktree(st, repoPath, worktreePath, commitSha, toolOk) ==
  IF ~commitExists(st.fs, repoPath, commitSha)
  THEN [ok |-> FALSE, err |-> "COMMIT_NOT_FOUND", called |-> FALSE,
        fs |-> st.fs, gitMeta |-> st.gitMeta]
  ELSE IF exists(st.fs, worktreePath)
  THEN [ok |-> FALSE, err |-> "WORKTREE_ALREADY_EXISTS", called |-> TRUE,
        fs |-> st.fs, gitMeta |-> st.gitMeta]
  ELSE IF <<repoPath, worktreePath>> \in st.gitMeta \/ ~toolOk
  THEN [ok |-> FALSE, err |-> "WORKTREE_CREATION_FAILED", called |-> TRUE,
        fs |-> st.fs, gitMeta |-> st.gitMeta]
  ELSE [ok |-> TRUE, err |-> "none", called |-> TRUE,
        fs |-> [st.fs EXCEPT ![worktreePath] = "checkout"],
        gitMeta |-> st.gitMeta \cup {<<repoPath, worktreePath>>}]

\* worktree remove dropping the registration of the working tree and
\* leaving its directory
gitRemoveWorktreeKeepsDirectory(st, repoPath, worktreePath, force, toolOk) ==
  IF toolOk /\ exists(st.fs, repoPath) /\ <<repoPath, worktreePath>> \in st.gitMeta
  THEN [ok |-> TRUE, fs |-> st.fs,
        gitMeta |-> st.gitMeta \ {<<repoPath, worktreePath>>}]
  ELSE [ok |-> FALSE, fs |-> st.fs, gitMeta |-> st.gitMeta]

\* GitService.removeWorktree (worktree remove [--force]).  toolOk: the tool
\* accepts; it can only accept a working tree registered in an existing
\* repository.  A failure is raised (WORKTREE_LOCKED or
\* WORKTREE_REMOVAL_FAILED) and changes nothing.
gitRemoveWorktree(st, repoPath, worktreePath, force, toolOk) ==
  IF toolOk /\ exists(st.fs, repoPath) /\ <<repoPath, worktreePath>> \in st.gitMeta
  THEN [ok |-> TRUE,
        fs |-> [st.fs EXCEPT ![worktreePath] = "none"],
        gitMeta |-> st.gitMeta \ {<<repoPath, worktreePath>>}]
  ELSE [ok |-> FALSE, fs |-> st.fs, gitMeta |-> st.gitMeta]

\* GitService.pruneWorktrees (worktree prune): drops the registrations whose
\* working tree is gone
pruneWorktrees(st, repoPath, toolOk) ==
  IF toolOk /\ exists(st.fs, repoPath)
  THEN [ok |-> TRUE,
        gitMeta |-> {m \in st.gitMeta :
                        ~(m[1] = repoPath /\ ~exists(st.fs, m[2]))}]
  ELSE [ok |-> FALSE, gitMeta |-> st.gitMeta]

\* removeDirectory: nothing to do for a missing path; rmSync throws when
\* the tree cannot be deleted (rmOk = FALSE)
\* removeDirectory returning without having deleted anything
removeDirectoryLeaves(f, dirPath, rmOk) == [threw |-> FALSE, fs |-> f]

removeDirectory(f, dirPath, rmOk) ==
  IF exists(f, dirPath)
  THEN IF rmOk THEN [threw |-> FALSE, fs |-> [f EXCEPT ![dirPath] = "none"]]
               ELSE [threw |-> TRUE, fs |-> f]
  ELSE [threw |-> FALSE, fs |-> f]

----------------------------------------------------------------------------
(* Worktree lifecycle manager (WorktreeManager.ts)                         *)

\* "no record" (null)
Null == [null |-> TRUE]

State(reg, f, meta) == [registry |-> reg, fs |-> f, gitMeta |-> meta]

\* what the VCS tool and the filesystem answer during one removeWorktree:
\* does graceful removal, forced removal, rmSync, prune succeed if called.
\* A call is made only after the previous tier failed, so the answers of
\* later tiers are listed only together with a refusal of the earlier ones.
EnvOutcomes ==
  {o \in [graceful : BOOLEAN, forced : BOOLEAN, rm : BOOLEAN, prune : BOOLEAN] :
     /\ o.graceful => o.forced
     /\ o.forced => o.rm}

TrackedPaths(reg) == {reg[i].path : i \in 1..Len(reg)}

\* the answers explored for each path of a batch (cleanupAll,
\* cleanupStaleWorktrees): graceful removal works; only forced removal works
\* and prune fails; only direct deletion works; nothing works
BatchOutcomes ==
  {[graceful |-> TRUE, forced |-> TRUE, rm |-> TRUE, prune |-> TRUE],
   [graceful |-> FALSE, forced |-> TRUE, rm |-> TRUE, prune |-> FALSE],
   [graceful |-> FALSE, forced |-> FALSE, rm |-> TRUE, prune |-> TRUE],
   [graceful |-> FALSE, forced |-> FALSE, rm |-> FALSE, prune |-> FALSE]}

getTrackedWorktrees(reg) == reg

trackedIndex(reg, path) ==
  IF \E i \in 1..Len(reg) : reg[i].path = path
  THEN CHOOSE i \in 1..Len(reg) :
         /\ reg[i].path = path
         /\ \A j \in 1..(i - 1) : reg[j].path # path
  ELSE 0

\* getWorktreeInfo: Array.prototype.find, the first record with the path
getWorktreeInfo(reg, path) ==
  IF trackedIndex(getTrackedWorktrees(reg), path) = 0 THEN Null
  ELSE reg[trackedIndex(getTrackedWorktrees(reg), path)]

\* trackWorktree putting the new record in front
trackWorktreeInFront(reg, worktree) == <<worktree>> \o getTrackedWorktrees(reg)

trackWorktree(reg, worktree) == Append(getTrackedWorktrees(reg), worktree)

untrackWorktreeKeepsAll(reg, path) == reg

untrackWorktree(reg, path) ==
  SelectSeq(getTrackedWorktrees(reg), LAMBDA w : w.path # path)

isCommitViewWorktree(reg, path) ==
  IF ~isCommitViewTempPath(path) THEN FALSE
  ELSE \E i \in 1..Len(getTrackedWorktrees(reg)) : reg[i].path = path

\* createWorktree, tracking before the gateway has answered
createWorktreeTrackFirst(st, repoPath, commitSha, commitMessage, toolOk, t) ==
  IF ~getRepoNameOk(st.fs, repoPath)
  THEN [registry |-> st.registry, fs |-> st.fs, gitMeta |-> st.gitMeta,
        raised |-> TRUE, err |-> "GIT_ERROR", gateway |-> "none", path |-> "",
        trace |-> <<Ev("getRepoName", repoPath, FALSE)>>]
  ELSE
    LET repoName == getRepoName(repoPath)
        shortSha == substring0(Spell(commitSha), ShortShaLen)
        worktreePath == generateWorktreePath(repoName, shortSha, Undefined)
        g == gitCreateWorktree(st, repoPath, worktreePath, commitSha, toolOk)
        worktree == [id |-> <<Intern(repoName), Intern(shortSha), t>>,
                     path |-> worktreePath,
                     commitSha |-> commitSha,
                     commitMessage |-> commitMessage,
                     originalRepoPath |-> repoPath,
                     createdAt |-> t]
    IN [registry |-> trackWorktree(st.registry, worktree),
        fs |-> g.fs, gitMeta |-> g.gitMeta,
        raised |-> ~g.ok, err |-> g.err, gateway |-> g.err, path |-> worktreePath,
        trace |-> <<Ev("getRepoName", repoPath, TRUE),
                    Ev("track", worktreePath, TRUE),
                    Ev("revparse", worktreePath, g.err # "COMMIT_NOT_FOUND")>>
                  \o (IF g.called THEN <<Ev("add", worktreePath, g.ok)>> ELSE <<>>)]

\* createWorktree(repoPath, commitSha, commitMessage) at time t
createWorktree(st, repoPath, commitSha, commitMessage, toolOk, t) ==
  IF ~getRepoNameOk(st.fs, repoPath)
  THEN [registry |-> st.registry, fs |-> st.fs, gitMeta |-> st.gitMeta,
        raised |-> TRUE, err |-> "GIT_ERROR", gateway |-> "none", path |-> "",
        trace |-> <<Ev("getRepoName", repoPath, FALSE)>>]
  ELSE
    LET repoName == getRepoName(repoPath)
        shortSha == substring0(Spell(commitSha), ShortShaLen)
        worktreePath == generateWorktreePath(repoName, shortSha, Undefined)
        g == gitCreateWorktree(st, repoPath, worktreePath, commitSha, toolOk)
        worktree == [id |-> <<Intern(repoName), Intern(shortSha), t>>,
                     path |-> worktreePath,
                     commitSha |-> commitSha,
                     commitMessage |-> commitMessage,
                     originalRepoPath |-> repoPath,
                     createdAt |-> t]
        gwTrace == <<Ev("getRepoName", repoPath, TRUE),
                     Ev("revparse", worktreePath, g.err # "COMMIT_NOT_FOUND")>>
                   \o (IF g.called THEN <<Ev("add", worktreePath, g.ok)>> ELSE <<>>)
    IN IF ~g.ok
       THEN [registry |-> st.registry, fs |-> g.fs, gitMeta |-> g.gitMeta,
             raised |-> TRUE, err |-> g.err, gateway |-> g.err,
             path |-> worktreePath,
             trace |-> gwTrace]
       ELSE [registry |-> trackWorktree(st.registry, worktree),
             fs |-> g.fs, gitMeta |-> g.gitMeta,
             raised |-> FALSE, err |-> "none", gateway |-> "none",
             path |-> worktreePath,
             trace |-> gwTrace \o <<Ev("track", worktreePath, TRUE)>>]

\* the removal tiers with the forced removal tried first
removalTiersForcedFirst(st, worktree, worktreePath, o) ==
  LET repo == worktree.originalRepoPath
      t2 == gitRemoveWorktree(st, repo, worktreePath, TRUE, o.forced)
      t3 == removeDirectory(st.fs, worktreePath, o.rm)
  IN IF t2.ok
     THEN [threw |-> FALSE, fs |-> t2.fs, gitMeta |-> t2.gitMeta,
           trace |-> <<Ev("forced", worktreePath, TRUE)>>]
     ELSE [threw |-> t3.threw, fs |-> t3.fs, gitMeta |-> st.gitMeta,
           trace |-> <<Ev("forced", worktreePath, FALSE),
                       Ev("graceful", worktreePath, FALSE),
                       Ev("direct", worktreePath, ~t3.threw)>>]

\* the removal tiers with a failed direct deletion swallowed like the
\* failures of the two tiers before it
removalTiersSwallowDeletion(st, worktree, worktreePath, o) ==
  LET repo == worktree.originalRepoPath
      t1 == gitRemoveWorktree(st, repo, worktreePath, FALSE, o.graceful)
      t2 == gitRemoveWorktree(st, repo, worktreePath, TRUE, o.forced)
      t3 == removeDirectory(st.fs, worktreePath, o.rm)
  IN IF t1.ok
     THEN [threw |-> FALSE, fs |-> t1.fs, gitMeta |-> t1.gitMeta,
           trace |-> <<Ev("graceful", worktreePath, TRUE)>>]
     ELSE IF t2.ok
     THEN [threw |-> FALSE, fs |-> t2.fs, gitMeta |-> t2.gitMeta,
           trace |-> <<Ev("graceful", worktreePath, FALSE),
                       Ev("forced", worktreePath, TRUE)>>]
     ELSE [threw |-> FALSE, fs |-> t3.fs, gitMeta |-> st.gitMeta,
           trace |-> <<Ev("graceful", worktreePath, FALSE),
                       Ev("forced", worktreePath, FALSE),
                       Ev("direct", worktreePath, ~t3.threw)>>]

\* the three removal tiers of a tracked path, each tried only after the
\* previous one raised
removalTiers(st, worktree, worktreePath, o) ==
  LET repo == worktree.originalRepoPath
      t1 == gitRemoveWorktree(st, repo, worktreePath, FALSE, o.graceful)
      t2 == gitRemoveWorktree(st, repo, worktreePath, TRUE, o.forced)
      t3 == removeDirectory(st.fs, worktreePath, o.rm)
  IN IF t1.ok
     THEN [threw |-> FALSE, fs |-> t1.fs, gitMeta |-> t1.gitMeta,
           trace |-> <<Ev("graceful", worktreePath, TRUE)>>]
     ELSE IF t2.ok
     THEN [threw |-> FALSE, fs |-> t2.fs, gitMeta |-> t2.gitMeta,
           trace |-> <<Ev("graceful", worktreePath, FALSE),
                       Ev("forced", worktreePath, TRUE)>>]
     ELSE [threw |-> t3.threw, fs |-> t3.fs, gitMeta |-> st.gitMeta,
           trace |-> <<Ev("graceful", worktreePath, FALSE),
                       Ev("forced", worktreePath, FALSE),
                       Ev("direct", worktreePath, ~t3.threw)>>]

\* afterRemoval letting a failed prune escape
afterRemovalPruneFatal(st, tiers, worktree, worktreePath, o) ==
  LET pr == pruneWorktrees(State(st.registry, tiers.fs, tiers.gitMeta),
                           worktree.originalRepoPath, o.prune)
  IN [registry |-> IF pr.ok THEN untrackWorktree(st.registry, worktreePath)
                            ELSE st.registry,
      fs |-> tiers.fs, gitMeta |-> pr.gitMeta,
      raised |-> ~pr.ok, found |-> TRUE,
      trace |-> <<Ev("lookup", worktreePath, TRUE)>> \o tiers.trace
                \o <<Ev("prune", worktreePath, pr.ok)>>
                \o (IF pr.ok THEN <<Ev("untrack", worktreePath, TRUE)>> ELSE <<>>)]

\* what removeWorktree does once a tier has removed the checkout: prune,
\* whose failure is ignored, then untrack
afterRemoval(st, tiers, worktree, worktreePath, o) ==
  LET pr == pruneWorktrees(State(st.registry, tiers.fs, tiers.gitMeta),
                           worktree.originalRepoPath, o.prune)
  IN [registry |-> untrackWorktree(st.registry, worktreePath),
      fs |-> tiers.fs, gitMeta |-> pr.gitMeta,
      raised |-> FALSE, found |-> TRUE,
      trace |-> <<Ev("lookup", worktreePath, TRUE)>> \o tiers.trace
                \o <<Ev("prune", worktreePath, pr.ok),
                     Ev("untrack", worktreePath, TRUE)>>]

\* removeWorktree(worktreePath)
removeWorktree(st, worktreePath, o) ==
  LET worktree == getWorktreeInfo(st.registry, worktreePath)
  IN IF worktree # Null
     THEN
       LET tiers == removalTiers(st, worktree, worktreePath, o)
       IN IF tiers.threw
          THEN [registry |-> st.registry, fs |-> tiers.fs, gitMeta |-> tiers.gitMeta,
                raised |-> TRUE, found |-> TRUE,
                trace |-> <<Ev("lookup", worktreePath, TRUE)>> \o tiers.trace]
          ELSE afterRemoval(st, tiers, worktree, worktreePath, o)
     ELSE
       IF isCommitViewTempPath(worktreePath) /\ exists(st.fs, worktreePath)
       THEN LET rm == removeDirectory(st.fs, worktreePath, o.rm)
            IN [registry |-> st.registry, fs |-> rm.fs, gitMeta |-> st.gitMeta,
                raised |-> rm.threw, found |-> FALSE,
                trace |-> <<Ev("lookup", worktreePath, FALSE),
                            Ev("rmdir", worktreePath, ~rm.threw)>>]
       ELSE [registry |-> st.registry, fs |-> st.fs, gitMeta |-> st.gitMeta,
             raised |-> FALSE, found |-> FALSE,
             trace |-> <<Ev("lookup", worktreePath, FALSE)>>]

\* the loop of cleanupAll over the records read at its start; os[p] is how
\* the environment answers for path p while the batch runs
RECURSIVE cleanupAllFrom(_, _, _, _)
cleanupAllFrom(i, trackedWorktrees, acc, os) ==
  IF i > Len(trackedWorktrees) THEN acc
  ELSE
    LET r == removeWorktree(State(acc.registry, acc.fs, acc.gitMeta),
                            trackedWorktrees[i].path, os[trackedWorktrees[i].path])
    IN cleanupAllFrom(i + 1, trackedWorktrees,
         [registry |-> r.registry, fs |-> r.fs, gitMeta |-> r.gitMeta,
          raised |-> FALSE,
          count |-> IF r.raised THEN acc.count ELSE acc.count + 1,
          trace |-> acc.trace \o r.trace],
         os)

\* cleanupAll counting every record it read, removed or not
cleanupAllCountsEvery(st, os) ==
  [cleanupAllFrom(1, getTrackedWorktrees(st.registry),
     [registry |-> st.registry, fs |-> st.fs, gitMeta |-> st.gitMeta,
      raised |-> FALSE, count |-> 0, trace |-> <<>>],
     os)
   EXCEPT !.count = Len(st.registry)]

\* cleanupAll()
cleanupAll(st, os) ==
  cleanupAllFrom(1, getTrackedWorktrees(st.registry),
    [registry |-> st.registry, fs |-> st.fs, gitMeta |-> st.gitMeta,
     raised |-> FALSE, count |-> 0, trace |-> <<>>],
    os)

maxAgeMs == 24 * 60 * 60 * 1000

\* staleVisit with the age taken the wrong way round
staleVisitAgeReversed(acc, worktree, o, t) ==
  LET rm == removeDirectory(acc.fs, worktree.path, o.rm)
      r == removeWorktree(State(acc.registry, acc.fs, acc.gitMeta),
                          worktree.path, o)
      ageMs == worktree.createdAt - t
  IN IF ~exists(acc.fs, worktree.path)
     THEN [acc EXCEPT
             !.registry = untrackWorktree(acc.registry, worktree.path),
             !.count = acc.count + 1,
             !.trace = acc.trace \o
                       <<Ev("stale-missing", worktree.path, TRUE),
                         Ev("untrack", worktree.path, TRUE)>>]
     ELSE IF ~exists(acc.fs, worktree.originalRepoPath)
     THEN IF rm.threw
          THEN [acc EXCEPT
                  !.raised = TRUE,
                  !.trace = acc.trace \o
                            <<Ev("stale-orphan", worktree.path, FALSE)>>]
          ELSE [acc EXCEPT
                  !.registry = untrackWorktree(acc.registry, worktree.path),
                  !.fs = rm.fs,
                  !.count = acc.count + 1,
                  !.trace = acc.trace \o
                            <<Ev("stale-orphan", worktree.path, TRUE),
                              Ev("untrack", worktree.path, TRUE)>>]
     ELSE IF ageMs > maxAgeMs
     THEN [registry |-> r.registry, fs |-> r.fs, gitMeta |-> r.gitMeta,
           raised |-> FALSE,
           count |-> IF r.raised THEN acc.count ELSE acc.count + 1,
           trace |-> acc.trace \o <<Ev("stale-old", worktree.path, TRUE)>>
                     \o r.trace]
     ELSE [acc EXCEPT
             !.trace = acc.trace \o <<Ev("stale-keep", worktree.path, TRUE)>>]

\* one pass of the loop body of cleanupStaleWorktrees, on record worktree at
\* time t; o is how the environment answers for its path
staleVisit(acc, worktree, o, t) ==
  LET rm == removeDirectory(acc.fs, worktree.path, o.rm)
      r == removeWorktree(State(acc.registry, acc.fs, acc.gitMeta),
                          worktree.path, o)
      ageMs == t - worktree.createdAt
  IN IF ~exists(acc.fs, worktree.path)
     THEN [acc EXCEPT
             !.registry = untrackWorktree(acc.registry, worktree.path),
             !.count = acc.count + 1,
             !.trace = acc.trace \o
                       <<Ev("stale-missing", worktree.path, TRUE),
                         Ev("untrack", worktree.path, TRUE)>>]
     ELSE IF ~exists(acc.fs, worktree.originalRepoPath)
     THEN IF rm.threw
          THEN [acc EXCEPT
                  !.raised = TRUE,
                  !.trace = acc.trace \o
                            <<Ev("stale-orphan", worktree.path, FALSE)>>]
          ELSE [acc EXCEPT
                  !.registry = untrackWorktree(acc.registry, worktree.path),
                  !.fs = rm.fs,
                  !.count = acc.count + 1,
                  !.trace = acc.trace \o
                            <<Ev("stale-orphan", worktree.path, TRUE),
                              Ev("untrack", worktree.path, TRUE)>>]
     ELSE IF ageMs > maxAgeMs
     THEN [registry |-> r.registry, fs |-> r.fs, gitMeta |-> r.gitMeta,
           raised |-> FALSE,
           count |-> IF r.raised THEN acc.count ELSE acc.count + 1,
           trace |-> acc.trace \o <<Ev("stale-old", worktree.path, TRUE)>>
                     \o r.trace]
     ELSE [acc EXCEPT
             !.trace = acc.trace \o <<Ev("stale-keep", worktree.path, TRUE)>>]

\* the loop of cleanupStaleWorktrees at time t; an exception leaves the loop
RECURSIVE cleanupStaleFrom(_, _, _, _, _)
cleanupStaleFrom(i, trackedWorktrees, acc, os, t) ==
  IF i > Len(trackedWorktrees) \/ acc.raised THEN acc
  ELSE cleanupStaleFrom(i + 1, trackedWorktrees,
         staleVisit(acc, trackedWorktrees[i], os[trackedWorktrees[i].path], t),
         os, t)

\* cleanupStaleWorktrees()
cleanupStaleWorktrees(st, os, t) ==
  cleanupStaleFrom(1, getTrackedWorktrees(st.registry),
    [registry |-> st.registry, fs |-> st.fs, gitMeta |-> st.gitMeta,
     raised |-> FALSE, count |-> 0, trace |-> <<>>],
    os, t)

----------------------------------------------------------------------------
(* State machine                                                           *)

NoPath == ""

\* `last`: the operation that has just completed (op, path), whether it
\* raised and with which error code (err), the error code the gateway's
\* creation step raised (gateway), whether removeWorktree found a record
\* (found) and was a second call in a row (again), the count a batch
\* returned and the calls the operation made (trace)
Idle ==
  [op |-> "idle", path |-> NoPath, raised |-> FALSE, err |-> "none",
   gateway |-> "none", found |-> FALSE, again |-> FALSE, count |-> 0,
   trace |-> <<>>]

\* no linking pass has been made
NoLink == [phase |-> "none"]

\* no second window process is running
NoProcs == <<>>

Init ==
  /\ registry = <<>>
  /\ fs = [p \in AllPaths |-> IF p \in CheckoutPaths THEN "none" ELSE "user"]
  /\ gitMeta = {}
  /\ now = 0
  /\ touched = FALSE
  /\ last = Idle
  /\ pairs = <<>>
  /\ link = NoLink
  /\ procs = NoProcs

\* Operations are awaited one after the other: `last` holds the outcome of
\* the operation that has just completed until its caller has consumed it.

CreateWorktree ==
  /\ last = Idle
  /\ Len(registry) < MaxRecords
  /\ \E repoPath \in Repos, commitSha \in Shas, commitMessage \in Messages,
        toolOk \in BOOLEAN :
       LET r == createWorktree(State(registry, fs, gitMeta), repoPath, commitSha,
                               commitMessage, toolOk, now)
       IN /\ registry' = r.registry
          /\ fs' = r.fs
          /\ gitMeta' = r.gitMeta
          /\ last' = [op |-> "createWorktree", path |-> r.path,
                      raised |-> r.raised, err |-> r.err,
                      gateway |-> r.gateway, found |-> FALSE, again |-> FALSE,
                      count |-> 0, trace |-> r.trace]
  /\ UNCHANGED <<now, touched, pairs, link, procs>>

\* removeWorktree(worktreePath); a call on a tracked path may be followed
\* at once by a second call on the same path
RemoveWorktree ==
  /\ \/ last = Idle
     \/ last.op = "removeWorktree" /\ last.found
  /\ \E worktreePath \in (IF last = Idle THEN CheckoutPaths \cup UserDirs
                                         ELSE {last.path}),
        o \in EnvOutcomes :
       LET r == removeWorktree(State(registry, fs, gitMeta), worktreePath, o)
       IN /\ registry' = r.registry
          /\ fs' = r.fs
          /\ gitMeta' = r.gitMeta
          /\ last' = [op |-> "removeWorktree", path |-> worktreePath,
                      raised |-> r.raised, err |-> "none", gateway |-> "none",
                      found |-> r.found, again |-> (last # Idle),
                      count |-> 0, trace |-> r.trace]
  /\ UNCHANGED <<now, touched, pairs, link, procs>>

CleanupAll ==
  /\ last = Idle
  /\ \E os \in [TrackedPaths(registry) -> BatchOutcomes] :
       LET r == cleanupAll(State(registry, fs, gitMeta), os)
       IN /\ registry' = r.registry
          /\ fs' = r.fs
          /\ gitMeta' = r.gitMeta
          /\ last' = [op |-> "cleanupAll", path |-> NoPath, raised |-> r.raised,
                      err |-> "none", gateway |-> "none", found |-> FALSE,
                      again |-> FALSE, count |-> r.count, trace |-> r.trace]
  /\ UNCHANGED <<now, touched, pairs, link, procs>>

CleanupStaleWorktrees ==
  /\ last = Idle
  /\ \E os \in [TrackedPaths(registry) -> BatchOutcomes] :
       LET r == cleanupStaleWorktrees(State(registry, fs, gitMeta), os, now)
       IN /\ registry' = r.registry
          /\ fs' = r.fs
          /\ gitMeta' = r.gitMeta
          /\ last' = [op |-> "cleanupStaleWorktrees", path |-> NoPath,
                      raised |-> r.raised, err |-> "none", gateway |-> "none",
                      found |-> FALSE, again |-> FALSE, count |-> r.count,
                      trace |-> r.trace]
  /\ UNCHANGED <<now, touched, pairs, link, procs>>

\* the caller has consumed the outcome of the completed operation
Acknowledge ==
  /\ last # Idle
  /\ last' = Idle
  /\ UNCHANGED <<registry, fs, gitMeta, now, touched, pairs, link, procs>>

\* something outside the system deletes a checkout directory or a
\* repository (with the worktree metadata it holds)
ExternalDelete ==
  \E p \in CheckoutPaths \cup Repos :
    /\ last = Idle
    /\ exists(fs, p)
    /\ fs' = [fs EXCEPT ![p] = "none"]
    /\ gitMeta' = {m \in gitMeta : m[1] # p}
    /\ touched' = TRUE
    /\ UNCHANGED <<registry, now, last, pairs, link, procs>>

\* the clock is observed after exactly the staleness threshold, or just past it
TickSteps == {maxAgeMs, maxAgeMs + 1}

\* Date.now() advances
Tick ==
  \E d \in TickSteps :
    /\ last = Idle
    /\ now + d <= maxAgeMs + MaxSkewMs
    /\ now' = now + d
    /\ UNCHANGED <<registry, fs, gitMeta, touched, last, pairs, link, procs>>

Next ==
  \/ CreateWorktree
  \/ RemoveWorktree
  \/ CleanupAll
  \/ CleanupStaleWorktrees
  \/ Acknowledge
  \/ ExternalDelete
  \/ Tick

Spec == Init /\ [][Next]_vars

----------------------------------------------------------------------------
(* Window pairing registry (WindowTracker.ts)                              *)

\* the random suffix of a pair's id
RandomSuffixes == {"k3x", "p9q"}

getActivePairs(ps) == ps

\* registerWindowPair(originalPath, worktreePath) at time t
registerWindowPair(ps, originalPath, worktreePath, t, rnd) ==
  LET Keep(p) == p.originalPath # originalPath /\ p.worktreePath # worktreePath
      filtered == SelectSeq(getActivePairs(ps), Keep)
  IN Append(filtered, [id |-> <<t, rnd>>,
                       originalPath |-> originalPath,
                       worktreePath |-> worktreePath,
                       createdAt |-> t])

\* getPartnerWindow returning the partner in the last pair that holds
\* currentPath
getPartnerWindowLast(ps, currentPath) ==
  LET hits == {i \in 1..Len(getActivePairs(ps)) :
                 \/ ps[i].originalPath = currentPath
                 \/ ps[i].worktreePath = currentPath}
      final == CHOOSE i \in hits : \A j \in hits : i >= j
  IN IF hits = {} THEN Undefined
     ELSE IF ps[final].originalPath = currentPath THEN ps[final].worktreePath
     ELSE ps[final].originalPath

\* the loop of getPartnerWindow from pair i on: the first pair with
\* currentPath on a side ends it
RECURSIVE getPartnerFrom(_, _, _)
getPartnerFrom(i, ps, currentPath) ==
  IF i > Len(ps) THEN Undefined
  ELSE IF ps[i].originalPath = currentPath THEN ps[i].worktreePath
  ELSE IF ps[i].worktreePath = currentPath THEN ps[i].originalPath
  ELSE getPartnerFrom(i + 1, ps, currentPath)

\* getPartnerWindow(currentPath), Undefined when no pair holds currentPath
getPartnerWindow(ps, currentPath) ==
  getPartnerFrom(1, getActivePairs(ps), currentPath)

isWorktreeWindow(ps, path) ==
  \E i \in 1..Len(getActivePairs(ps)) : ps[i].worktreePath = path

isOriginalWindow(ps, path) ==
  \E i \in 1..Len(getActivePairs(ps)) : ps[i].originalPath = path

\* unregisterWindowPair looking at the worktree side of the pairs only
unregisterWindowPairOneSide(ps, path) ==
  LET Keep(p) == p.worktreePath # path
  IN SelectSeq(getActivePairs(ps), Keep)

\* unregisterWindowPair that writes the pairs back as it read them
unregisterWindowPairKeepsAll(ps, path) == getActivePairs(ps)

\* unregisterWindowPair(path)
unregisterWindowPair(ps, path) ==
  LET Keep(p) == p.originalPath # path /\ p.worktreePath # path
  IN SelectSeq(getActivePairs(ps), Keep)

\* the paths windows are opened on: a repository and two checkouts
PairPaths == {RepoA} \cup CheckoutPaths

PairInit ==
  /\ registry = <<>>
  /\ fs = [p \in AllPaths |-> IF p \in CheckoutPaths THEN "none" ELSE "user"]
  /\ gitMeta = {}
  /\ now = 0
  /\ touched = FALSE
  /\ last = Idle
  /\ pairs = <<>>
  /\ link = NoLink
  /\ procs = NoProcs

RegisterWindowPair ==
  \E originalPath \in PairPaths, worktreePath \in PairPaths,
     rnd \in RandomSuffixes :
    /\ pairs' = registerWindowPair(pairs, originalPath, worktreePath, now, rnd)
    /\ last' = [op |-> "registerWindowPair", path |-> originalPath,
                worktreePath |-> worktreePath]
    /\ UNCHANGED <<registry, fs, gitMeta, now, touched, link, procs>>

UnregisterWindowPair ==
  \E path \in PairPaths :
    /\ pairs' = unregisterWindowPair(pairs, path)
    /\ last' = [op |-> "unregisterWindowPair", path |-> path,
                worktreePath |-> Undefined,
                paired |-> \/ isOriginalWindow(pairs, path)
                           \/ isWorktreeWindow(pairs, path)]
    /\ UNCHANGED <<registry, fs, gitMeta, now, touched, link, procs>>

\* a window asks for its partner (quick switch, close)
GetPartnerWindow ==
  \E currentPath \in PairPaths :
    /\ last' = [op |-> "getPartnerWindow", path |-> currentPath,
                worktreePath |-> Undefined,
                result |-> getPartnerWindow(pairs, currentPath)]
    /\ UNCHANGED <<registry, fs, gitMeta, now, touched, pairs, link, procs>>

PairNext ==
  \/ RegisterWindowPair
  \/ UnregisterWindowPair
  \/ GetPartnerWindow

PairSpec == PairInit /\ [][PairNext]_vars

----------------------------------------------------------------------------
(* Orchestration: the commands and the session hooks (selectCommit.ts,     *)
(* commands/cleanup.ts, extension.ts) that drive both registries           *)

\* the outcome a command leaves in `last`
Done(op, path, raised) ==
  [Idle EXCEPT !.op = op, !.path = path, !.raised = raised]

\* selectCommitCommand in the window of repoPath: create the checkout and,
\* when that succeeded, register the pair
SelectCommit ==
  /\ last = Idle
  /\ Len(registry) < MaxRecords
  /\ \E repoPath \in Repos, commitSha \in Shas, commitMessage \in Messages,
        toolOk \in BOOLEAN, rnd \in RandomSuffixes :
       LET r == createWorktree(State(registry, fs, gitMeta), repoPath, commitSha,
                               commitMessage, toolOk, now)
       IN /\ registry' = r.registry
          /\ fs' = r.fs
          /\ gitMeta' = r.gitMeta
          /\ pairs' = IF r.raised THEN pairs
                      ELSE registerWindowPair(pairs, repoPath, r.path, now, rnd)
          /\ last' = Done("selectCommit", r.path, FALSE)
  /\ UNCHANGED <<now, touched, link, procs>>

\* closeWorktreeCommand in the window of currentPath (the user has
\* confirmed): remove, then unregister; an exception is shown, not raised
CloseWorktreeCommand ==
  /\ last = Idle
  /\ \E currentPath \in CheckoutPaths, o \in BatchOutcomes :
       /\ isCommitViewWorktree(registry, currentPath)
       /\ LET r == removeWorktree(State(registry, fs, gitMeta), currentPath, o)
          IN /\ registry' = r.registry
             /\ fs' = r.fs
             /\ gitMeta' = r.gitMeta
             /\ pairs' = IF r.raised THEN pairs
                         ELSE unregisterWindowPair(pairs, currentPath)
             /\ last' = Done("closeWorktreeCommand", currentPath, FALSE)
  /\ UNCHANGED <<now, touched, link, procs>>

\* commitview.closeWorktree from the worktree list: remove, then
\* unregister; an exception escapes the handler
CloseFromList ==
  /\ last = Idle
  /\ \E i \in 1..Len(registry), o \in BatchOutcomes :
       LET r == removeWorktree(State(registry, fs, gitMeta), registry[i].path, o)
       IN /\ registry' = r.registry
          /\ fs' = r.fs
          /\ gitMeta' = r.gitMeta
          /\ pairs' = IF r.raised THEN pairs
                      ELSE unregisterWindowPair(pairs, registry[i].path)
          /\ last' = Done("closeWorktree", registry[i].path, r.raised)
  /\ UNCHANGED <<now, touched, link, procs>>

\* deactivate() in the window of workspacePath with autoCleanupOnClose
\* either set or not
Deactivate ==
  /\ last = Idle
  /\ \E workspacePath \in Repos \cup CheckoutPaths, autoCleanup \in BOOLEAN,
        o \in BatchOutcomes :
       LET r == removeWorktree(State(registry, fs, gitMeta), workspacePath, o)
           cleans == isCommitViewWorktree(registry, workspacePath) /\ autoCleanup
       IN /\ registry' = IF cleans THEN r.registry ELSE registry
          /\ fs' = IF cleans THEN r.fs ELSE fs
          /\ gitMeta' = IF cleans THEN r.gitMeta ELSE gitMeta
          /\ pairs' = IF cleans /\ ~r.raised
                      THEN unregisterWindowPair(pairs, workspacePath)
                      ELSE pairs
          /\ last' = [op |-> "deactivate", path |-> workspacePath,
                      raised |-> FALSE, err |-> "none", gateway |-> "none",
                      found |-> isCommitViewWorktree(registry, workspacePath),
                      again |-> FALSE, count |-> 0,
                      trace |-> <<>>, autoCleanup |-> autoCleanup,
                      paired |-> isWorktreeWindow(pairs, workspacePath),
                      logged |-> cleans /\ r.raised]
  /\ UNCHANGED <<now, touched, link, procs>>

\* cleanupAllCommand (the user has confirmed)
CleanupAllCommand ==
  /\ last = Idle
  /\ Len(getTrackedWorktrees(registry)) # 0
  /\ \E os \in [TrackedPaths(registry) -> BatchOutcomes] :
       LET r == cleanupAll(State(registry, fs, gitMeta), os)
       IN /\ registry' = r.registry
          /\ fs' = r.fs
          /\ gitMeta' = r.gitMeta
          /\ last' = Done("cleanupAllCommand", NoPath, r.raised)
  /\ UNCHANGED <<now, touched, pairs, link, procs>>

\* activate(): the stale cleanup at the start of a session; an exception is
\* logged, not raised
Activate ==
  /\ last = Idle
  /\ \E os \in [TrackedPaths(registry) -> BatchOutcomes] :
       LET r == cleanupStaleWorktrees(State(registry, fs, gitMeta), os, now)
       IN /\ registry' = r.registry
          /\ fs' = r.fs
          /\ gitMeta' = r.gitMeta
          /\ last' = [Done("activate", NoPath, FALSE) EXCEPT
                        !.count = r.count, !.trace = r.trace]
  /\ UNCHANGED <<now, touched, pairs, link, procs>>

OrchNext ==
  \/ SelectCommit
  \/ CloseWorktreeCommand
  \/ CloseFromList
  \/ Deactivate
  \/ CleanupAllCommand
  \/ Activate
  \/ Acknowledge
  \/ ExternalDelete
  \/ Tick

OrchSpec == Init /\ [][OrchNext]_vars

----------------------------------------------------------------------------
(* Sessions over time: checkouts are opened, windows close with or without *)
(* their cleanup, and every new session starts with the stale cleanup      *)

\* a checkout is created while the clock followed can still pass its
\* staleness threshold
LiveCreate ==
  /\ now < MaxSkewMs
  /\ CreateWorktree

\* the instants at which the clock is read: the start, the staleness
\* threshold and the instants just past it
ClockValues == {0} \cup {maxAgeMs + k : k \in 0..MaxSkewMs}

\* time advances to a later instant
LiveTick ==
  \E t \in ClockValues :
    /\ last = Idle
    /\ t > now
    /\ now' = t
    /\ UNCHANGED <<registry, fs, gitMeta, touched, last, pairs, link, procs>>

\* a removal tier succeeds when tried: with these answers the direct
\* deletion at least does
TierWorks(o) == o.rm

\* activate(): as Activate, remembering for which paths removal worked
LiveActivate ==
  /\ last = Idle
  /\ \E os \in [TrackedPaths(registry) -> BatchOutcomes] :
       LET r == cleanupStaleWorktrees(State(registry, fs, gitMeta), os, now)
       IN /\ registry' = r.registry
          /\ fs' = r.fs
          /\ gitMeta' = r.gitMeta
          /\ last' = [op |-> "activate", path |-> NoPath, raised |-> FALSE,
                      count |-> r.count, trace |-> r.trace,
                      worked |-> {p \in TrackedPaths(registry) : TierWorks(os[p])}]
  /\ UNCHANGED <<now, touched, pairs, link, procs>>

LiveNext ==
  \/ LiveCreate
  \/ Deactivate
  \/ LiveActivate
  \/ Acknowledge
  \/ ExternalDelete
  \/ LiveTick

\* a session has just started with removal working for path p
ActivatedTierWorks(p) == last.op = "activate" /\ p \in last.worked

\* whenever path p is tracked again and again between operations, sessions
\* are started again and again at which removal works for p
SessionsKeepStarting(p) ==
  []<>(last = Idle /\ p \in TrackedPaths(registry)) => []<>ActivatedTierWorks(p)

\* commands return, time advances, sessions keep being started and removal
\* works again and again
LiveSpec ==
  /\ Init
  /\ [][LiveNext]_vars
  /\ WF_vars(Acknowledge)
  /\ SF_vars(LiveTick)
  /\ \A p \in CheckoutPaths : SessionsKeepStarting(p)

----------------------------------------------------------------------------
(* Windows that stay open: a checkout is opened in its window and a window *)
(* is activated (opened or reloaded) on a folder while time passes         *)

\* activate() in the window whose workspace folder is workspacePath: as
\* Activate, remembering the folder and whether it was a tracked checkout
\* with its directory in place when the cleanup began
ActivateWindow ==
  /\ last = Idle
  /\ \E workspacePath \in {p \in Repos \cup CheckoutPaths : exists(fs, p)},
        os \in [TrackedPaths(registry) -> BatchOutcomes] :
       LET r == cleanupStaleWorktrees(State(registry, fs, gitMeta), os, now)
       IN /\ registry' = r.registry
          /\ fs' = r.fs
          /\ gitMeta' = r.gitMeta
          /\ last' = [op |-> "activate", path |-> workspacePath,
                      raised |-> FALSE, count |-> r.count, trace |-> r.trace,
                      found |-> isCommitViewWorktree(registry, workspacePath)]
  /\ UNCHANGED <<now, touched, pairs, link, procs>>

WindowNext ==
  \/ SelectCommit
  \/ ActivateWindow
  \/ Acknowledge
  \/ Tick

WindowSpec == Init /\ [][WindowNext]_vars

----------------------------------------------------------------------------
(* Link planner and linker (FileCopyService.ts)                            *)
(*                                                                         *)
(* A relative path is the sequence of its names: path.join of a relative   *)
(* directory and an entry name appends the name, and the source directory  *)
(* itself is the empty sequence.  A source tree gives the kind of the      *)
(* entry at every relative path and the directories that cannot be read.   *)

\* pattern.replace(/\./g, '\\.').replace(/\*/g, '.*').replace(/\?/g, '.'):
\* the regular expression, one element per character of the pattern
globToRegex(pattern) ==
  [i \in 1..Len(pattern) |->
     IF pattern[i] = "*" THEN [t |-> "run", c |-> ""]
     ELSE IF pattern[i] = "?" THEN [t |-> "one", c |-> ""]
     ELSE [t |-> "literal", c |-> pattern[i]]]

\* new RegExp(`^${regexPattern}$`, 'i').test(filename), from element i of the
\* expression and character j of the name
RECURSIVE regexTest(_, _, _, _)
regexTest(re, i, cs, j) ==
  IF i > Len(re) THEN j > Len(cs)
  ELSE IF re[i].t = "run"
  THEN \/ regexTest(re, i + 1, cs, j)
       \/ (j <= Len(cs) /\ regexTest(re, i, cs, j + 1))
  ELSE /\ j <= Len(cs)
       /\ \/ re[i].t = "one"
          \/ toLowerCase(<<re[i].c>>) = toLowerCase(<<cs[j]>>)
       /\ regexTest(re, i + 1, cs, j + 1)

matchesGlob(filename, pattern) ==
  regexTest(globToRegex(Spell(pattern)), 1, Spell(filename), 1)

\* patterns.some(p => this.matchesGlob(name, p))
someMatches(name, patterns) ==
  \E k \in 1..Len(patterns) : matchesGlob(name, patterns[k])

\* the names a directory listing can hold, in the order readdirSync gives them
EntryNames ==
  <<".Env.local", ".env", ".git", ".github", ".npmrc", "config",
    "node_modules", "pkg", "setup.ts", "test.js", "xenv">>

\* the relative paths of the source trees and checkouts of the model
TreePaths ==
  {<<".env">>, <<".Env.local">>, <<"xenv">>, <<"setup.ts">>,
   <<"node_modules">>, <<"node_modules", ".npmrc">>,
   <<"node_modules", "test.js">>,
   <<".git">>, <<".git", "config">>,
   <<".github">>, <<".github", ".env">>,
   <<"pkg">>, <<"pkg", ".env">>, <<"pkg", "node_modules">>,
   <<"pkg", "node_modules", ".npmrc">>}

\* a listing that never fails: the entries of dir whether or not it can be
\* read
readdirSyncAlwaysReads(src, dir) ==
  LET Present(name) ==
        /\ (dir \o <<name>>) \in TreePaths
        /\ src.kind[dir \o <<name>>] # "none"
  IN [raised |-> FALSE, entries |-> SelectSeq(EntryNames, Present)]

\* fs.readdirSync(fullDir, { withFileTypes: true }): the names of the entries
\* of directory dir of tree src, or raised when it cannot be read
readdirSync(src, dir) ==
  IF dir \in src.unreadable
  THEN [raised |-> TRUE, entries |-> <<>>]
  ELSE LET Present(name) ==
             /\ (dir \o <<name>>) \in TreePaths
             /\ src.kind[dir \o <<name>>] # "none"
       IN [raised |-> FALSE, entries |-> SelectSeq(EntryNames, Present)]

\* findMatchingEntries(dir, patterns, type), on the source directory itself
findMatchingEntries(src, patterns, type) ==
  LET r == readdirSync(src, <<>>)
      Kept(name) ==
        /\ src.kind[<<name>>] = type
        /\ someMatches(name, patterns)
  IN IF r.raised THEN <<>> ELSE SelectSeq(r.entries, Kept)

\* the recursive search goes into a directory entry: it is a directory, its
\* name is not the name of a directory to be linked, and its name does not
\* begin with '.git'
descendsIntoSelected(kind, name, skipDirs) ==
  /\ kind = "directory"
  /\ ~ startsWith(Spell(name), <<".", "g", "i", "t">>)

descends(kind, name, skipDirs) ==
  /\ kind = "directory"
  /\ name \notin skipDirs
  /\ ~ startsWith(Spell(name), <<".", "g", "i", "t">>)

\* findMatchingFilesRecursive(baseDir, patterns, skipDirs, currentDir), and
\* its loop over the entries of currentDir from entry i on
RECURSIVE findMatchingFilesRecursive(_, _, _, _)
RECURSIVE findMatchingFilesFrom(_, _, _, _, _, _)
findMatchingFilesFrom(i, entries, src, patterns, skipDirs, currentDir) ==
  IF i > Len(entries) THEN <<>>
  ELSE LET name == entries[i]
           relativePath == currentDir \o <<name>>
           kind == src.kind[relativePath]
           found ==
             IF kind = "file" /\ someMatches(name, patterns)
             THEN <<relativePath>>
             ELSE IF descends(kind, name, skipDirs)
             THEN findMatchingFilesRecursive(src, patterns, skipDirs,
                                             relativePath)
             ELSE <<>>
       IN found \o findMatchingFilesFrom(i + 1, entries, src, patterns,
                                         skipDirs, currentDir)

findMatchingFilesRecursive(src, patterns, skipDirs, currentDir) ==
  LET r == readdirSync(src, currentDir)
  IN IF r.raised THEN <<>>
     ELSE findMatchingFilesFrom(1, r.entries, src, patterns, skipDirs,
                                currentDir)

\* the elements of a sequence
Range(s) == {s[i] : i \in 1..Len(s)}

\* the plan of linkConfigFiles: the root-level directories, then the files
\* found with those directories' names skipped
planOf(src, config) ==
  LET dirs == findMatchingEntries(src, config.directoriesToLink, "directory")
      skipDirs == Range(dirs)
      files == findMatchingFilesRecursive(
                 src, config.filesToLink \o config.additionalPatternsToLink,
                 skipDirs, <<>>)
  IN [files |-> files, dirs |-> [i \in 1..Len(dirs) |-> <<dirs[i]>>]]

\* a relative path as the string the code holds, names joined by '/'
RECURSIVE relativeString(_)
relativeString(rel) ==
  IF Len(rel) = 1 THEN Spell(rel[1])
  ELSE pathJoin(relativeString(SubSeq(rel, 1, Len(rel) - 1)),
                Spell(rel[Len(rel)]))

\* type === 'directory' ? `${relativePath}/` : relativePath
displayNameOf(relativePath, type) ==
  IF type = "directory"
  THEN relativeString(relativePath) \o <<"/">>
  ELSE relativeString(relativePath)

\* path.dirname of a relative path of the checkout
dirname(rel) == SubSeq(rel, 1, Len(rel) - 1)

\* An entry of the checkout: nothing, a file or directory the checkout
\* already holds, or a symbolic link.  dest tells where a link leads:
\* "source" to the entry `to` of the source directory (a link made by
\* linkEntry, of type `as`), "present" to something else that exists,
\* "missing" to nothing (a dangling link).
NoEntry == [kind |-> "none", dest |-> "", to |-> <<>>, as |-> ""]
OwnFile == [kind |-> "file", dest |-> "", to |-> <<>>, as |-> ""]
OwnDirectory == [kind |-> "directory", dest |-> "", to |-> <<>>, as |-> ""]
LiveLink == [kind |-> "symlink", dest |-> "present", to |-> <<>>, as |-> ""]
DanglingLink == [kind |-> "symlink", dest |-> "missing", to |-> <<>>, as |-> ""]
LinkTo(rel, type) ==
  [kind |-> "symlink", dest |-> "source", to |-> rel,
   as |-> IF type = "directory" THEN "dir" ELSE ""]

\* the entry is a directory, or a link that leads to one
leadsToDirectory(e) ==
  \/ e.kind = "directory"
  \/ (e.kind = "symlink" /\ e.dest = "source" /\ e.as = "dir")

\* every directory on the way to rel is one
reachable(tgt, rel) ==
  \A n \in 1..(Len(rel) - 1) : leadsToDirectory(tgt[SubSeq(rel, 1, n)])

\* fs.existsSync(path.join(targetDir, rel)): follows links, so it is false
\* for a dangling link; the checkout directory itself exists
existsSync(tgt, rel) ==
  \/ rel = <<>>
  \/ /\ reachable(tgt, rel)
     /\ \/ tgt[rel].kind \in {"file", "directory"}
        \/ (tgt[rel].kind = "symlink" /\ tgt[rel].dest # "missing")

\* fs.mkdirSync(dir, { recursive: true }): raises when a name on the way is
\* taken by something that is not a directory
mkdirSync(tgt, dir) ==
  IF \E n \in 1..Len(dir) :
       /\ tgt[SubSeq(dir, 1, n)].kind # "none"
       /\ ~ leadsToDirectory(tgt[SubSeq(dir, 1, n)])
  THEN [raised |-> TRUE, message |-> "ENOTDIR", target |-> tgt]
  ELSE [raised |-> FALSE, message |-> "",
        target |-> [p \in DOMAIN tgt |->
                      IF /\ tgt[p].kind = "none"
                         /\ Len(p) <= Len(dir)
                         /\ p = SubSeq(dir, 1, Len(p))
                      THEN OwnDirectory ELSE tgt[p]]]

\* fs.symlinkSync(sourcePath, targetPath, type): raises when the directory
\* of the link is not one or when the name is taken, also by a dangling link
symlinkSync(tgt, rel, type) ==
  IF ~ reachable(tgt, rel)
  THEN [raised |-> TRUE, message |-> "ENOTDIR", target |-> tgt]
  ELSE IF tgt[rel].kind # "none"
  THEN [raised |-> TRUE, message |-> "EEXIST", target |-> tgt]
  ELSE [raised |-> FALSE, message |-> "",
        target |-> [tgt EXCEPT ![rel] = LinkTo(rel, type)]]

\* ensureParentDir(targetPath)
ensureParentDir(tgt, rel) ==
  IF ~ existsSync(tgt, dirname(rel))
  THEN mkdirSync(tgt, dirname(rel))
  ELSE [raised |-> FALSE, message |-> "", target |-> tgt]

\* the try block of linkEntry; faults are the entries whose link cannot be
\* made for a reason of the environment (permissions, a full disk), which
\* strikes at the parent directories when early and at the link otherwise
tryLink(tgt, rel, type, faults, early) ==
  LET struck == [raised |-> TRUE, message |-> "EACCES", target |-> tgt]
      parent ==
        IF rel \in faults /\ early /\ ~ existsSync(tgt, dirname(rel))
        THEN struck
        ELSE ensureParentDir(tgt, rel)
  IN IF parent.raised THEN parent
     ELSE IF rel \in faults
     THEN [struck EXCEPT !.target = parent.target]
     ELSE symlinkSync(parent.target, rel, type)

\* `Failed to link ${displayName}: ${error.message}`
warningOf(displayName, message) ==
  [text |-> "Failed to link", name |-> displayName, message |-> message]

\* linkEntry with a failure that escapes instead of being recorded
linkEntryRethrows(st, relativePath, type, faults, early) ==
  LET displayName == displayNameOf(relativePath, type)
      made == tryLink(st.target, relativePath, type, faults, early)
  IN IF existsSync(st.target, relativePath)
     THEN [st EXCEPT !.result.skipped = Append(@, displayName)]
     ELSE IF made.raised
     THEN [st EXCEPT !.target = made.target, !.raised = TRUE]
     ELSE [st EXCEPT !.target = made.target,
                     !.result.linked = Append(@, displayName)]

\* linkEntry without the return after reporting an existing target as
\* skipped
linkEntryNoReturn(st, relativePath, type, faults, early) ==
  LET displayName == displayNameOf(relativePath, type)
      made == tryLink(st.target, relativePath, type, faults, early)
      seen == IF existsSync(st.target, relativePath)
              THEN [st EXCEPT !.result.skipped = Append(@, displayName)]
              ELSE st
  IN IF made.raised
     THEN [seen EXCEPT !.target = made.target,
                       !.result.failed = Append(@, displayName),
                       !.result.warnings =
                          Append(@, warningOf(displayName, made.message))]
     ELSE [seen EXCEPT !.target = made.target,
                       !.result.linked = Append(@, displayName)]

\* linkEntry(sourceDir, targetDir, relativePath, type, result), on the
\* checkout and the result so far
linkEntry(st, relativePath, type, faults, early) ==
  LET displayName == displayNameOf(relativePath, type)
      made == tryLink(st.target, relativePath, type, faults, early)
  IN IF existsSync(st.target, relativePath)
     THEN [st EXCEPT !.result.skipped = Append(@, displayName)]
     ELSE IF made.raised
     THEN [st EXCEPT !.target = made.target,
                     !.result.failed = Append(@, displayName),
                     !.result.warnings =
                        Append(@, warningOf(displayName, made.message))]
     ELSE [st EXCEPT !.target = made.target,
                     !.result.linked = Append(@, displayName)]

\* for (const entry of entries) this.linkEntry(..., entry, type, result):
\* an exception ends the loop
RECURSIVE linkEach(_, _, _, _, _, _)
linkEach(i, entries, type, st, faults, early) ==
  IF i > Len(entries) \/ st.raised THEN st
  ELSE linkEach(i + 1, entries, type,
                linkEntry(st, entries[i], type, faults, early),
                faults, early)

\* the patterns of the configuration: the defaults, and a configuration of
\* the user with additional patterns
DefaultConfig ==
  [filesToLink |-> <<".env", ".env.*", ".npmrc", ".yarnrc", ".nvmrc">>,
   directoriesToLink |-> <<"node_modules", "venv", ".venv", "env",
                           "__pycache__">>,
   additionalPatternsToLink |-> <<>>]

UserConfig ==
  [filesToLink |-> <<".env">>,
   directoriesToLink |-> <<"node_modules">>,
   additionalPatternsToLink |-> <<"*.ts", "con?ig">>]

Configs == {DefaultConfig, UserConfig}

\* the loops of linkConfigFiles in the other order: the planned
\* directories, then the planned files
linkPlannedDirectoriesFirst(plan, tgt, faults, early) ==
  LET start == [target |-> tgt, raised |-> FALSE,
                result |-> [linked |-> <<>>, skipped |-> <<>>,
                            failed |-> <<>>, warnings |-> <<>>]]
      dirs == linkEach(1, plan.dirs, "directory", start, faults, early)
  IN IF dirs.raised THEN dirs
     ELSE linkEach(1, plan.files, "file", dirs, faults, early)

\* the two loops of linkConfigFiles: the planned files, then the planned
\* directories
linkPlanned(plan, tgt, faults, early) ==
  LET start == [target |-> tgt, raised |-> FALSE,
                result |-> [linked |-> <<>>, skipped |-> <<>>,
                            failed |-> <<>>, warnings |-> <<>>]]
      files == linkEach(1, plan.files, "file", start, faults, early)
  IN IF files.raised THEN files
     ELSE linkEach(1, plan.dirs, "directory", files, faults, early)

\* The source trees: the files at the root, node_modules (absent, a
\* directory, or a link to one), .git, .github, and a package directory
\* that is absent, holds a .env, or holds a node_modules of its own too.
RootFiles == {{}, {".env"}, {".env", ".Env.local", "xenv", "setup.ts"}}

sourceTree(rootFiles, nm, git, hub, pkg) ==
  [p \in TreePaths |->
     IF Len(p) = 1 /\ p[1] \in {".env", ".Env.local", "xenv", "setup.ts"}
     THEN (IF p[1] \in rootFiles THEN "file" ELSE "none")
     ELSE IF p = <<"node_modules">> THEN nm
     ELSE IF p \in {<<"node_modules", ".npmrc">>, <<"node_modules", "test.js">>}
     THEN (IF nm = "directory" THEN "file" ELSE "none")
     ELSE IF p = <<".git">> THEN (IF git THEN "directory" ELSE "none")
     ELSE IF p = <<".git", "config">> THEN (IF git THEN "file" ELSE "none")
     ELSE IF p = <<".github">> THEN (IF hub THEN "directory" ELSE "none")
     ELSE IF p = <<".github", ".env">> THEN (IF hub THEN "file" ELSE "none")
     ELSE IF p = <<"pkg">>
     THEN (IF pkg = "none" THEN "none" ELSE "directory")
     ELSE IF p = <<"pkg", ".env">>
     THEN (IF pkg = "none" THEN "none" ELSE "file")
     ELSE IF p = <<"pkg", "node_modules">>
     THEN (IF pkg = "nested" THEN "directory" ELSE "none")
     ELSE (IF pkg = "nested" THEN "file" ELSE "none")]

\* the unreadable directories are drawn for the trees with every root file
Unreadable(rootFiles) ==
  IF Cardinality(rootFiles) > 1 THEN {{}, {<<>>}, {<<"pkg">>}} ELSE {{}}

SourceTrees ==
  UNION {{[kind |-> sourceTree(rootFiles, nm, git, hub, pkg),
           unreadable |-> u] : u \in Unreadable(rootFiles)} :
           rootFiles \in RootFiles, nm \in {"none", "directory", "symlink"},
           git \in BOOLEAN, hub \in BOOLEAN,
           pkg \in {"none", "flat", "nested"}}

\* The checkouts before linking: what the revision holds at .env (nothing,
\* a file, a link, a dangling link) and at node_modules and pkg (nothing,
\* two directories, or a file named pkg).
Checkouts ==
  {[p \in TreePaths |->
      IF p = <<".env">> THEN env
      ELSE IF p = <<"node_modules">> THEN rest[1]
      ELSE IF p = <<"pkg">> THEN rest[2]
      ELSE NoEntry] :
     env \in {NoEntry, OwnFile, LiveLink, DanglingLink},
     rest \in {<<NoEntry, NoEntry>>, <<OwnDirectory, OwnDirectory>>,
               <<NoEntry, OwnFile>>}}

LinkInit ==
  /\ registry = <<>>
  /\ fs = [p \in AllPaths |-> IF p \in CheckoutPaths THEN "none" ELSE "user"]
  /\ gitMeta = {}
  /\ now = 0
  /\ touched = FALSE
  /\ last = Idle
  /\ pairs = <<>>
  /\ procs = NoProcs
  /\ link \in {[phase |-> "ready", source |-> src, before |-> tgt,
                config |-> config] :
                 src \in SourceTrees, tgt \in Checkouts, config \in Configs}

\* selectCommitCommand links the configuration into the new checkout
LinkConfigFiles ==
  /\ link.phase = "ready"
  /\ LET plan == planOf(link.source, link.config)
     IN \E faults \in {f \in SUBSET Range(plan.files \o plan.dirs) :
                          Cardinality(f) <= MaxFaults},
           early \in BOOLEAN :
          LET r == linkPlanned(plan, link.before, faults, early)
          IN link' = [phase |-> "done", source |-> link.source,
                      before |-> link.before, config |-> link.config,
                      faults |-> faults, plan |-> plan, target |-> r.target,
                      raised |-> r.raised, result |-> r.result]
  /\ UNCHANGED <<registry, fs, gitMeta, now, touched, last, pairs, procs>>

LinkNext == LinkConfigFiles

LinkSpec == LinkInit /\ [][LinkNext]_vars

----------------------------------------------------------------------------
(* Version gate of the VCS tool (GitService.validateGitVersion)            *)

\* the oldest version accepted
MinMajor == 2
MinMinor == 15

\* git.version() when the binary is not found
NotInstalled == [installed |-> FALSE, major |-> 0, minor |-> 0]

\* what git.version() can answer
Versions ==
  {NotInstalled}
  \cup {[installed |-> TRUE, major |-> a, minor |-> b] :
          a \in 0..MaxMajor, b \in 0..MaxMinor}

\* validateGitVersion comparing the minor number whatever the major one
validateGitVersionMinorOnly(version) ==
  IF ~ version.installed
  THEN [raised |-> TRUE, err |-> "GIT_NOT_INSTALLED", recoverable |-> FALSE]
  ELSE IF version.major < MinMajor \/ version.minor < MinMinor
  THEN [raised |-> TRUE, err |-> "GIT_VERSION_TOO_OLD", recoverable |-> FALSE]
  ELSE [raised |-> FALSE, err |-> "none", recoverable |-> TRUE]

\* validateGitVersion(), on the answer of git.version()
validateGitVersion(version) ==
  IF ~ version.installed
  THEN [raised |-> TRUE, err |-> "GIT_NOT_INSTALLED", recoverable |-> FALSE]
  ELSE IF \/ version.major < MinMajor
          \/ (version.major = MinMajor /\ version.minor < MinMinor)
  THEN [raised |-> TRUE, err |-> "GIT_VERSION_TOO_OLD", recoverable |-> FALSE]
  ELSE [raised |-> FALSE, err |-> "none", recoverable |-> TRUE]

\* selectCommitCommand validates the tool's version before anything else
ValidateGitVersion ==
  /\ last = Idle
  /\ \E version \in Versions :
       LET r == validateGitVersion(version)
       IN last' = [op |-> "validateGitVersion", version |-> version,
                   raised |-> r.raised, err |-> r.err,
                   recoverable |-> r.recoverable]
  /\ UNCHANGED <<registry, fs, gitMeta, now, touched, pairs, link, procs>>

GateNext == ValidateGitVersion \/ Acknowledge

GateSpec == Init /\ [][GateNext]_vars

----------------------------------------------------------------------------
(* Two windows at once.  Each window is a process of its own with its own  *)
(* WorktreeManager and WindowTracker over the one durable store; a call    *)
(* in one window proceeds between the steps of a call in the other.        *)

Windows == {"w1", "w2"}

\* the repository and the checkout states a window can find: what up to two
\* createWorktree calls leave behind
StartEmpty ==
  State(<<>>, [p \in AllPaths |-> IF p \in CheckoutPaths THEN "none" ELSE "user"],
        {})

StartAfter(st, repoPath, commitSha) ==
  LET r == createWorktree(st, repoPath, commitSha, "Fix it", TRUE, 0)
  IN State(r.registry, r.fs, r.gitMeta)

StartStates ==
  LET one == {StartAfter(StartEmpty, r, s) : r \in Repos, s \in Shas}
      two == UNION {{StartAfter(st, r, s) : r \in Repos, s \in Shas} :
                      st \in one}
  IN {StartEmpty} \cup one \cup two

\* the pairs a window can find: none, or the pair of a repository and a
\* checkout
StartPairs ==
  {<<>>} \cup
  {registerWindowPair(<<>>, RepoA, p, 0, "k3x") : p \in CheckoutPaths}

\* a call about to start in a window
Call(op, pc, path, repo, sha, other) ==
  [op |-> op, pc |-> pc, path |-> path, repo |-> repo, sha |-> sha,
   other |-> other, worktree |-> Null, read |-> <<>>, raised |-> FALSE,
   tracked |-> FALSE]

WorktreeCalls ==
  {Call("removeWorktree", "lookup", p, NoPath, "", NoPath) :
     p \in CheckoutPaths}
  \cup {Call("createWorktree", "create", NoPath, r, s, NoPath) :
          r \in Repos, s \in Shas}

PairCalls ==
  {Call("registerWindowPair", "readPairs", RepoA, NoPath, "", p) :
     p \in CheckoutPaths}
  \cup {Call("registerWindowPair", "readPairs", RepoB, NoPath, "", p) :
          p \in CheckoutPaths}
  \cup {Call("unregisterWindowPair", "readPairs", p, NoPath, "", NoPath) :
          p \in PairPaths}

\* tracked: the worktree registry held a record for the call's path when
\* the call began
Began(call, reg) ==
  [call EXCEPT !.tracked = call.path \in TrackedPaths(reg)]

RaceInit ==
  /\ now = 0
  /\ touched = FALSE
  /\ last = Idle
  /\ link = NoLink
  /\ \/ \E st \in StartStates :
          /\ registry = st.registry
          /\ fs = st.fs
          /\ gitMeta = st.gitMeta
          /\ pairs = <<>>
          /\ procs \in {[w \in Windows |-> Began(c[w], st.registry)] :
                          c \in [Windows -> WorktreeCalls]}
     \/ /\ registry = StartEmpty.registry
        /\ fs = StartEmpty.fs
        /\ gitMeta = StartEmpty.gitMeta
        /\ pairs \in StartPairs
        /\ procs \in [Windows -> PairCalls]

\* removeWorktree, line 49: getWorktreeInfo
Lookup(w) ==
  /\ procs[w].pc = "lookup"
  /\ LET worktree == getWorktreeInfo(registry, procs[w].path)
     IN procs' = [procs EXCEPT
                    ![w].worktree = worktree,
                    ![w].pc = IF worktree # Null THEN "graceful"
                                                 ELSE "notTracked"]
  /\ UNCHANGED <<registry, fs, gitMeta, now, touched, last, pairs, link>>

\* removeWorktree, line 53: gitService.removeWorktree without force
Graceful(w) ==
  /\ procs[w].pc = "graceful"
  /\ \E toolOk \in BOOLEAN :
       LET r == gitRemoveWorktree(State(registry, fs, gitMeta),
                                  procs[w].worktree.originalRepoPath,
                                  procs[w].path, FALSE, toolOk)
       IN /\ fs' = r.fs
          /\ gitMeta' = r.gitMeta
          /\ procs' = [procs EXCEPT
                         ![w].pc = IF r.ok THEN "prune" ELSE "forced"]
  /\ UNCHANGED <<registry, now, touched, last, pairs, link>>

\* removeWorktree, line 57: gitService.removeWorktree with force
Forced(w) ==
  /\ procs[w].pc = "forced"
  /\ \E toolOk \in BOOLEAN :
       LET r == gitRemoveWorktree(State(registry, fs, gitMeta),
                                  procs[w].worktree.originalRepoPath,
                                  procs[w].path, TRUE, toolOk)
       IN /\ fs' = r.fs
          /\ gitMeta' = r.gitMeta
          /\ procs' = [procs EXCEPT
                         ![w].pc = IF r.ok THEN "prune" ELSE "direct"]
  /\ UNCHANGED <<registry, now, touched, last, pairs, link>>

\* removeWorktree, line 60: removeDirectory, whose failure leaves the call
Direct(w) ==
  /\ procs[w].pc = "direct"
  /\ \E rmOk \in BOOLEAN :
       LET r == removeDirectory(fs, procs[w].path, rmOk)
       IN /\ fs' = r.fs
          /\ procs' = [procs EXCEPT
                         ![w].pc = IF r.threw THEN "done" ELSE "prune",
                         ![w].raised = r.threw]
  /\ UNCHANGED <<registry, gitMeta, now, touched, last, pairs, link>>

\* removeWorktree, lines 65-69: pruneWorktrees, its failure ignored
Prune(w) ==
  /\ procs[w].pc = "prune"
  /\ \E toolOk \in BOOLEAN :
       LET r == pruneWorktrees(State(registry, fs, gitMeta),
                               procs[w].worktree.originalRepoPath, toolOk)
       IN /\ gitMeta' = r.gitMeta
          /\ procs' = [procs EXCEPT ![w].pc = "readWorktrees"]
  /\ UNCHANGED <<registry, fs, now, touched, last, pairs, link>>

\* removeWorktree, lines 72-77: the path is not tracked
NotTracked(w) ==
  /\ procs[w].pc = "notTracked"
  /\ \E rmOk \in BOOLEAN :
       LET r == IF /\ isCommitViewTempPath(procs[w].path)
                   /\ exists(fs, procs[w].path)
                THEN removeDirectory(fs, procs[w].path, rmOk)
                ELSE [threw |-> FALSE, fs |-> fs]
       IN /\ fs' = r.fs
          /\ procs' = [procs EXCEPT ![w].pc = "done", ![w].raised = r.threw]
  /\ UNCHANGED <<registry, gitMeta, now, touched, last, pairs, link>>

\* createWorktree, lines 24-41: everything before trackWorktree, that is
\* createWorktree on an empty collection, whose one record is the record
\* to track
GatewayCreate(w) ==
  /\ procs[w].pc = "create"
  /\ \E toolOk \in BOOLEAN :
       LET r == createWorktree(State(<<>>, fs, gitMeta), procs[w].repo,
                               procs[w].sha, "Fix it", toolOk, now)
       IN /\ fs' = r.fs
          /\ gitMeta' = r.gitMeta
          /\ procs' = [procs EXCEPT
                         ![w].pc = IF r.raised THEN "done"
                                               ELSE "readWorktrees",
                         ![w].raised = r.raised,
                         ![w].path = IF r.raised THEN NoPath ELSE r.path,
                         ![w].worktree = IF r.raised THEN Null
                                                     ELSE r.registry[1]]
  /\ UNCHANGED <<registry, now, touched, last, pairs, link>>

\* trackWorktree and untrackWorktree, first line: getTrackedWorktrees gives
\* the window the collection as the store holds it
ReadWorktrees(w) ==
  /\ procs[w].pc = "readWorktrees"
  /\ procs' = [procs EXCEPT ![w].read = getTrackedWorktrees(registry),
                            ![w].pc = "updateWorktrees"]
  /\ UNCHANGED <<registry, fs, gitMeta, now, touched, last, pairs, link>>

\* trackWorktree and untrackWorktree, last line: globalState.update with the
\* collection computed from the one that was read
UpdateWorktrees(w) ==
  /\ procs[w].pc = "updateWorktrees"
  /\ registry' = IF procs[w].op = "createWorktree"
                 THEN trackWorktree(procs[w].read, procs[w].worktree)
                 ELSE untrackWorktree(procs[w].read, procs[w].path)
  /\ procs' = [procs EXCEPT ![w].pc = "done"]
  /\ UNCHANGED <<fs, gitMeta, now, touched, last, pairs, link>>

\* registerWindowPair and unregisterWindowPair: getActivePairs
ReadPairs(w) ==
  /\ procs[w].pc = "readPairs"
  /\ procs' = [procs EXCEPT ![w].read = getActivePairs(pairs),
                            ![w].pc = "updatePairs"]
  /\ UNCHANGED <<registry, fs, gitMeta, now, touched, last, pairs, link>>

\* registerWindowPair and unregisterWindowPair: globalState.update
UpdatePairs(w) ==
  /\ procs[w].pc = "updatePairs"
  /\ \E rnd \in RandomSuffixes :
       pairs' = IF procs[w].op = "registerWindowPair"
                THEN registerWindowPair(procs[w].read, procs[w].path,
                                        procs[w].other, now, rnd)
                ELSE unregisterWindowPair(procs[w].read, procs[w].path)
  /\ procs' = [procs EXCEPT ![w].pc = "done"]
  /\ UNCHANGED <<registry, fs, gitMeta, now, touched, last, link>>

RaceNext ==
  \E w \in Windows :
    \/ Lookup(w)
    \/ Graceful(w)
    \/ Forced(w)
    \/ Direct(w)
    \/ Prune(w)
    \/ NotTracked(w)
    \/ GatewayCreate(w)
    \/ ReadWorktrees(w)
    \/ UpdateWorktrees(w)
    \/ ReadPairs(w)
    \/ UpdatePairs(w)

RaceSpec == RaceInit /\ [][RaceNext]_vars

----------------------------------------------------------------------------
(* The select-commit flow step by step, and quick switch                   *)
(* (commands/selectCommit.ts, commands/quickSwitch.ts).  `last` holds the  *)
(* position of the running command: the step it has completed (pc), the    *)
(* steps made so far, and the folder it opened in a new window.            *)

\* getWorktreeForRepo(repoPath)
getWorktreeForRepo(reg, repoPath) ==
  SelectSeq(getTrackedWorktrees(reg), LAMBDA w : w.originalRepoPath = repoPath)

\* the catch of selectCommitCommand: the folder opened after createWorktree
\* raised; only 'Open Existing' after WORKTREE_ALREADY_EXISTS opens one,
\* the first tracked checkout of the repository at that revision
openedAfterFailure(reg, repoPath, commitSha, err, choice) ==
  LET existingWorktrees == getWorktreeForRepo(reg, repoPath)
      hits == {i \in 1..Len(existingWorktrees) :
                 existingWorktrees[i].commitSha = commitSha}
      first == CHOOSE i \in hits : \A j \in hits : i <= j
  IN IF err = "WORKTREE_ALREADY_EXISTS" /\ choice = "Open Existing"
        /\ hits # {}
     THEN existingWorktrees[first].path
     ELSE NoPath

\* the step reached once linkConfigFiles has returned: a pass that stops at
\* the first entry it could not link
afterLinkStopsOnFailure(linked) ==
  IF linked.raised \/ linked.result.failed # <<>> THEN "failed" ELSE "linked"

\* the step reached once linkConfigFiles has returned: failed entries are
\* shown as a warning and the flow goes on; only an exception reaches the
\* catch
afterLink(linked) == IF linked.raised THEN "failed" ELSE "linked"

\* the source directories and the checkouts the flow links between
FlowSources ==
  {[kind |-> sourceTree({".env"}, "directory", FALSE, FALSE, "none"),
    unreadable |-> u] : u \in {{}, {<<>>}}}

FlowCheckouts ==
  {[p \in TreePaths |-> IF p = <<".env">> THEN env ELSE NoEntry] :
     env \in {NoEntry, DanglingLink}}

\* lines 78-82 and the catch, lines 115-148: createWorktree, which writes
\* the record; when it raises nothing else of the try block runs
FlowCreate ==
  /\ last = Idle
  /\ Len(registry) < MaxRecords
  /\ \E repoPath \in Repos, commitSha \in Shas, commitMessage \in Messages,
        toolOk \in BOOLEAN, choice \in {"Open Existing", "Cancel"} :
       LET r == createWorktree(State(registry, fs, gitMeta), repoPath, commitSha,
                               commitMessage, toolOk, now)
       IN /\ registry' = r.registry
          /\ fs' = r.fs
          /\ gitMeta' = r.gitMeta
          /\ last' = [op |-> "selectCommit",
                      pc |-> IF r.raised THEN "failed" ELSE "created",
                      path |-> r.path, repo |-> repoPath, err |-> r.err,
                      steps |-> <<"createWorktree">>,
                      opened |-> IF r.raised
                                 THEN openedAfterFailure(r.registry, repoPath,
                                                         commitSha, r.err, choice)
                                 ELSE NoPath]
  /\ UNCHANGED <<now, touched, pairs, link, procs>>

\* lines 84-98: linkConfigFiles(repoPath, worktree.path) and its messages
FlowLink ==
  /\ last.op = "selectCommit"
  /\ last.pc = "created"
  /\ \E src \in FlowSources, tgt \in FlowCheckouts, early \in BOOLEAN :
       LET plan == planOf(src, DefaultConfig)
       IN \E faults \in {f \in SUBSET Range(plan.files \o plan.dirs) :
                            Cardinality(f) <= MaxFaults} :
            LET r == linkPlanned(plan, tgt, faults, early)
            IN /\ link' = [phase |-> "done", source |-> src, before |-> tgt,
                           config |-> DefaultConfig, faults |-> faults,
                           plan |-> plan, target |-> r.target,
                           raised |-> r.raised, result |-> r.result]
               /\ last' = [last EXCEPT
                             !.pc = afterLink(r),
                             !.steps = Append(@, "linkConfigFiles")]
  /\ UNCHANGED <<registry, fs, gitMeta, now, touched, pairs, procs>>

\* line 101: windowTracker.registerWindowPair(repoPath, worktree.path)
FlowRegister ==
  /\ last.op = "selectCommit"
  /\ last.pc = "linked"
  /\ \E rnd \in RandomSuffixes :
       pairs' = registerWindowPair(pairs, last.repo, last.path, now, rnd)
  /\ last' = [last EXCEPT !.pc = "registered",
                          !.steps = Append(@, "registerWindowPair")]
  /\ UNCHANGED <<registry, fs, gitMeta, now, touched, link, procs>>

\* lines 103-114: vscode.openFolder on the checkout in a new window
FlowOpen ==
  /\ last.op = "selectCommit"
  /\ last.pc = "registered"
  /\ last' = [last EXCEPT !.pc = "opened", !.opened = last.path,
                          !.steps = Append(@, "openFolder")]
  /\ UNCHANGED <<registry, fs, gitMeta, now, touched, pairs, link, procs>>

\* quickSwitchCommand in the window of currentPath: the pairs it leaves and
\* the folder it opens
quickSwitchKeepsPair(ps, f, currentPath) ==
  LET partnerPath == getPartnerWindow(ps, currentPath)
  IN IF partnerPath = Undefined \/ ~ exists(f, partnerPath)
     THEN [pairs |-> ps, opened |-> NoPath, partner |-> partnerPath]
     ELSE [pairs |-> ps, opened |-> partnerPath, partner |-> partnerPath]

quickSwitchCommand(ps, f, currentPath) ==
  LET partnerPath == getPartnerWindow(ps, currentPath)
  IN IF partnerPath = Undefined
     THEN [pairs |-> ps, opened |-> NoPath, partner |-> partnerPath]
     ELSE IF ~ exists(f, partnerPath)
     THEN [pairs |-> unregisterWindowPair(ps, currentPath), opened |-> NoPath,
           partner |-> partnerPath]
     ELSE [pairs |-> ps, opened |-> partnerPath, partner |-> partnerPath]

QuickSwitchCommand ==
  /\ last = Idle
  /\ \E currentPath \in PairPaths :
       LET r == quickSwitchCommand(pairs, fs, currentPath)
       IN /\ pairs' = r.pairs
          /\ last' = [op |-> "quickSwitch", pc |-> "returned",
                      path |-> currentPath, partner |-> r.partner,
                      gone |-> r.partner # Undefined /\ ~ exists(fs, r.partner),
                      opened |-> r.opened]
  /\ UNCHANGED <<registry, fs, gitMeta, now, touched, link, procs>>

\* the command has returned; its linking result is dropped with it
FlowReturn ==
  /\ last # Idle
  /\ last.pc \in {"failed", "opened", "returned"}
  /\ last' = Idle
  /\ link' = NoLink
  /\ UNCHANGED <<registry, fs, gitMeta, now, touched, pairs, procs>>

FlowNext ==
  \/ FlowCreate
  \/ FlowLink
  \/ FlowRegister
  \/ FlowOpen
  \/ QuickSwitchCommand
  \/ FlowReturn
  \/ ExternalDelete

\* the pairs the flow starts with: none, or the two pairs left by a commit
\* opened from a repository window and another opened from the window of
\* that checkout, whose checkouts a cleanup has removed since
FlowPairs ==
  {<<>>} \cup
  {registerWindowPair(registerWindowPair(<<>>, RepoA, pq[1], 0, "k3x"),
                      pq[1], pq[2], 0, "p9q") :
     pq \in {x \in CheckoutPaths \X CheckoutPaths : x[1] # x[2]}}

FlowInit ==
  /\ registry = <<>>
  /\ fs = [p \in AllPaths |-> IF p \in CheckoutPaths THEN "none" ELSE "user"]
  /\ gitMeta = {}
  /\ now = 0
  /\ touched = FALSE
  /\ last = Idle
  /\ pairs \in FlowPairs
  /\ link = NoLink
  /\ procs = NoProcs

FlowSpec == FlowInit /\ [][FlowNext]_vars

----------------------------------------------------------------------------
(* Properties                                                              *)

IsTier(e) == e.step \in {"graceful", "forced", "direct"}

\* the call raised: only the direct deletion's exception escapes a call
IsThrow(e) == e.step \in {"direct", "rmdir"} /\ ~e.ok

\* a path's last component carries one of the system's prefixes
HasSystemName(p) ==
  \/ startsWith(basename(p), <<"t", "e", "m", "p", "-">>)
  \/ startsWith(basename(p),
                <<"c", "o", "m", "m", "i", "t", "v", "i", "e", "w", "-">>)

\* C1: when the gateway's creation step raises, createWorktree raises that
\* same error and the registry is left unchanged; a record is appended only
\* after the gateway's creation step has succeeded.
C1_FailedCreateLeavesRegistry ==
  [][last'.op = "createWorktree" =>
       LET tr == last'.trace
           gatewayRaised == \E i \in 1..Len(tr) :
                              tr[i].step \in {"revparse", "add"} /\ ~tr[i].ok
       IN /\ gatewayRaised =>
               /\ last'.raised
               /\ last'.gateway # "none"
               /\ last'.err = last'.gateway
               /\ registry' = registry
          /\ \A j \in 1..Len(tr) :
               tr[j].step = "track" =>
                 \E i \in 1..(j - 1) : tr[i].step = "add" /\ tr[i].ok
          /\ registry' # registry =>
               /\ \E j \in 1..Len(tr) : tr[j].step = "track"
               /\ Len(registry') = Len(registry) + 1
               /\ SubSeq(registry', 1, Len(registry)) = registry
               /\ registry'[Len(registry')].path = last'.path]_vars

C1_Witness ==
  /\ last.op = "createWorktree"
  /\ last.raised
  /\ last.gateway = "WORKTREE_ALREADY_EXISTS"
  /\ Len(registry) = 1

\* C2 as stated: removeWorktree never deletes a directory the system did
\* not create, whatever the name of the path: a call on an untracked
\* directory of the user leaves it in place.
C2_NeverDeletesUntracked ==
  [][(/\ last'.op = "removeWorktree"
      /\ ~last'.found
      /\ fs[last'.path] = "user") => fs'[last'.path] = "user"]_vars

\* C2 amended: a call of removeWorktree on an untracked directory of the
\* user whose last component starts with neither temp- nor commitview-
\* deletes nothing and leaves the registry as it was.
C2_NeverDeletesUntrackedOtherName ==
  [][(/\ last'.op = "removeWorktree"
      /\ ~last'.found
      /\ fs[last'.path] = "user"
      /\ ~HasSystemName(last'.path)) =>
       /\ fs' = fs
       /\ registry' = registry
       /\ ~last'.raised]_vars

C2_Witness ==
  /\ last.op = "removeWorktree"
  /\ last.path = UserDocsDir
  /\ ~last.found
  /\ fs[UserDocsDir] = "user"
  /\ registry # <<>>

\* C3: as long as nothing outside the system has touched the checkout
\* directories, between operations a record exists for a path exactly when
\* the checkout directory exists at that path, whether the last operation
\* completed or raised.
C3_RecordIffDirectory ==
  ~touched =>
    \A p \in CheckoutPaths :
      (p \in TrackedPaths(registry)) <=> (fs[p] = "checkout")

C3_Witness ==
  /\ ~touched
  /\ last.op = "removeWorktree"
  /\ last.found
  /\ last.raised
  /\ last.path \in TrackedPaths(registry)
  /\ fs[last.path] = "checkout"

\* C4 as stated: no two records of the registry have the same path.
C4_UniquePaths ==
  \A i, j \in 1..Len(registry) :
    i # j => registry[i].path # registry[j].path

\* C5: isCommitViewWorktree answers true for every path that has a record
\* and false for every path that has none.
C5_IsCommitViewWorktreeIffTracked ==
  \A p \in CheckoutPaths \cup UserDirs :
    isCommitViewWorktree(registry, p) <=> (p \in TrackedPaths(registry))

C5_Witness ==
  /\ registry # <<>>
  /\ \E p \in CheckoutPaths : p \notin TrackedPaths(registry)
  /\ UserTempDir \notin TrackedPaths(registry)
  /\ isCommitViewTempPath(UserTempDir)

C6_SecondCallChangesNothing ==
  /\ ~last'.raised
  /\ ~last'.found
  /\ registry' = registry
  /\ fs' = fs
  /\ gitMeta' = gitMeta
  /\ last'.path \notin TrackedPaths(registry')
  /\ ~exists(fs', last'.path)

\* C6 as stated: a second removeWorktree on the same path right after a
\* first one on a tracked path returns without raising and changes neither
\* the registry nor the disk, however the first call ended.
C6_Idempotent ==
  [][last'.again => C6_SecondCallChangesNothing]_vars

\* C6 amended: when a removeWorktree on a tracked path has returned without
\* raising, a second removeWorktree on the same path returns without
\* raising and changes neither the registry nor the disk; the path has no
\* record and no directory.
C6_IdempotentAfterReturn ==
  [][(last'.again /\ ~last.raised) => C6_SecondCallChangesNothing]_vars

C6_Witness ==
  /\ last.op = "removeWorktree"
  /\ last.again
  /\ ~last.raised
  /\ ~last.found
  /\ last.trace = <<Ev("lookup", last.path, FALSE)>>

\* C7: for a tracked path the tiers run strictly in order and stop at the
\* first success: graceful removal first; forced removal only right after
\* graceful removal raised; direct deletion only right after forced removal
\* raised; after a tier has succeeded no further tier runs.
C7_TierOrder ==
  LET tr == last.trace
  IN \A i \in 1..Len(tr) :
       /\ (tr[i].step = "lookup" /\ tr[i].ok) =>
            i < Len(tr) /\ tr[i + 1].step = "graceful"
       /\ tr[i].step = "graceful" =>
            /\ i > 1 /\ tr[i - 1].step = "lookup" /\ tr[i - 1].ok
            /\ tr[i - 1].path = tr[i].path
            /\ ~tr[i].ok => (i < Len(tr) /\ tr[i + 1].step = "forced")
       /\ tr[i].step = "forced" =>
            /\ i > 1 /\ tr[i - 1].step = "graceful" /\ ~tr[i - 1].ok
            /\ tr[i - 1].path = tr[i].path
            /\ ~tr[i].ok => (i < Len(tr) /\ tr[i + 1].step = "direct")
       /\ tr[i].step = "direct" =>
            /\ i > 1 /\ tr[i - 1].step = "forced" /\ ~tr[i - 1].ok
            /\ tr[i - 1].path = tr[i].path
       /\ (IsTier(tr[i]) /\ tr[i].ok) =>
            i < Len(tr) /\ ~IsTier(tr[i + 1])

C7_Witness ==
  /\ last.op = "removeWorktree"
  /\ last.found
  /\ \E i \in 1..Len(last.trace) :
       last.trace[i].step = "direct" /\ last.trace[i].ok
  /\ \E i \in 1..Len(last.trace) : last.trace[i].step = "prune"

\* C8: when a tier of removeWorktree has succeeded, prune is attempted
\* exactly once, after the tiers and before the record is removed; whether
\* prune succeeds or fails, the call returns normally and the record is gone.
C8_PruneOnceAndSwallowed ==
  (/\ last.op = "removeWorktree"
   /\ last.found
   /\ \E i \in 1..Len(last.trace) : IsTier(last.trace[i]) /\ last.trace[i].ok) =>
    LET tr == last.trace
        n == Len(tr)
    IN /\ ~last.raised
       /\ Cardinality({i \in 1..n : tr[i].step = "prune"}) = 1
       /\ n >= 4
       /\ IsTier(tr[n - 2]) /\ tr[n - 2].ok
       /\ tr[n - 1].step = "prune"
       /\ tr[n].step = "untrack"
       /\ last.path \notin TrackedPaths(registry)

C8_Witness ==
  /\ last.op = "removeWorktree"
  /\ last.found
  /\ ~last.raised
  /\ \E i \in 1..Len(last.trace) :
       last.trace[i].step = "prune" /\ ~last.trace[i].ok
  /\ last.path \notin TrackedPaths(registry)

\* the calls of removeWorktree in a batch's trace, by the position of their
\* lookup, and whether the call starting at position i raised
CallStarts(tr) == {i \in 1..Len(tr) : tr[i].step = "lookup"}

CallRaised(tr, i) ==
  \E k \in i..Len(tr) :
    /\ IsThrow(tr[k])
    /\ \A m \in (i + 1)..k : tr[m].step # "lookup"

IsLookup(e) == e.step = "lookup"

\* C9: cleanupAll never raises; it calls removeWorktree once for every
\* record that was in the registry when it started, in order, whether or
\* not earlier calls raised; it returns the number of calls that completed
\* without raising, and every record so counted is gone.
C9_CleanupAllCounts ==
  [][last'.op = "cleanupAll" =>
       LET tr == last'.trace
           lookups == SelectSeq(tr, IsLookup)
       IN /\ ~last'.raised
          /\ Len(lookups) = Len(registry)
          /\ \A i \in 1..Len(registry) : lookups[i].path = registry[i].path
          /\ last'.count =
               Cardinality({i \in CallStarts(tr) : ~CallRaised(tr, i)})
          /\ \A i \in CallStarts(tr) :
               ~CallRaised(tr, i) => tr[i].path \notin TrackedPaths(registry')]_vars

C9_Witness ==
  /\ last.op = "cleanupAll"
  /\ ~last.raised
  /\ last.count = 1
  /\ Len(registry) = 1
  /\ Len(last.trace) > 1
  /\ CallRaised(last.trace, 1)
  /\ \E i \in CallStarts(last.trace) : i > 1 /\ ~CallRaised(last.trace, i)

IsStaleVisit(e) ==
  e.step \in {"stale-missing", "stale-orphan", "stale-old", "stale-keep"}

\* C10 as stated: cleanupStaleWorktrees never lets the failure on one
\* record escape; it returns normally and has visited every record that was
\* in the registry when it started.
C10_StaleNeverPropagates ==
  [][last'.op = "cleanupStaleWorktrees" =>
       /\ ~last'.raised
       /\ Len(SelectSeq(last'.trace, IsStaleVisit)) = Len(registry)]_vars

\* what a returning cleanupStaleWorktrees has done to the records whose
\* checkout directory or origin repository was missing when it started
StaleVisitsDone ==
  /\ \A k \in 1..Len(registry) :
       LET w == registry[k]
       IN /\ ~exists(fs, w.path) =>
               /\ w.path \notin TrackedPaths(registry')
               /\ fs'[w.path] = fs[w.path]
          /\ (exists(fs, w.path) /\ ~exists(fs, w.originalRepoPath)) =>
               /\ ~exists(fs', w.path)
               /\ w.path \notin TrackedPaths(registry')
  /\ (\A k \in 1..Len(registry) : ~exists(fs, registry[k].path)) =>
       (fs' = fs /\ gitMeta' = gitMeta)
  /\ last'.count = Len(registry) - Len(registry')

\* C11 as stated: a cleanupStaleWorktrees that returns has untracked,
\* without touching the disk, every record whose checkout directory was
\* missing, has deleted the directory of and untracked every record whose
\* origin repository was missing, and returns the number of records the
\* call removed from the registry.
C11_StaleMissingAndOrphan ==
  [][(last'.op = "cleanupStaleWorktrees" /\ ~last'.raised) =>
       StaleVisitsDone]_vars

\* a record is left as it was: still in the registry at its position among
\* the records kept, its directory and its VCS metadata untouched
LeftUntouched(w) ==
  /\ \E i \in 1..Len(registry') : registry'[i] = w
  /\ fs'[w.path] = fs[w.path]
  /\ (<<w.originalRepoPath, w.path>> \in gitMeta') =
       (<<w.originalRepoPath, w.path>> \in gitMeta)

\* C12 as stated: cleanupStaleWorktrees leaves untouched every record whose
\* checkout directory and origin repository exist and whose age is at most
\* 24 hours; full removal is attempted only for records older than that.
C12_YoungRecordsUntouched ==
  [][last'.op = "cleanupStaleWorktrees" =>
       /\ \A k \in 1..Len(registry) :
            LET w == registry[k]
            IN (/\ exists(fs, w.path)
                /\ exists(fs, w.originalRepoPath)
                /\ now - w.createdAt <= maxAgeMs) => LeftUntouched(w)
       /\ \A i \in 1..Len(last'.trace) :
            last'.trace[i].step = "lookup" =>
              /\ i > 1
              /\ last'.trace[i - 1].step = "stale-old"
              /\ \E k \in 1..Len(registry) :
                   /\ registry[k].path = last'.trace[i].path
                   /\ now - registry[k].createdAt > maxAgeMs]_vars

\* the pairs that hold path p on either side
PairsTouching(ps, p) ==
  {i \in 1..Len(ps) : ps[i].originalPath = p \/ ps[i].worktreePath = p}

\* C13 as stated: every path appears in at most one pair of the pairing
\* registry, counting both sides.
C13_OnePairPerPath ==
  \A p \in PairPaths : Cardinality(PairsTouching(pairs, p)) <= 1

\* C14 as stated: registerWindowPair(a, b) followed by
\* registerWindowPair(a, c) leaves exactly one pair touching a, with
\* getPartnerWindow(a) = c, and the pair (a, b) is gone.
C14_ReregisterReplaces ==
  [][(/\ last.op = "registerWindowPair"
      /\ last'.op = "registerWindowPair"
      /\ last'.path = last.path) =>
       LET a == last'.path
           b == last.worktreePath
           c == last'.worktreePath
       IN /\ Cardinality(PairsTouching(pairs', a)) = 1
          /\ getPartnerWindow(pairs', a) = c
          /\ b # c =>
               ~\E i \in 1..Len(pairs') :
                  pairs'[i].originalPath = a /\ pairs'[i].worktreePath = b]_vars

\* C15 as stated: after any completed operation that removes a worktree
\* record, no pair of the pairing registry has the removed checkout's path
\* as its worktreePath.
C15_PairRemovedWithCheckout ==
  [][\A p \in CheckoutPaths :
       (p \in TrackedPaths(registry) /\ p \notin TrackedPaths(registry')) =>
         ~isWorktreeWindow(pairs', p)]_vars

\* the ids of the records in the registry, and every id a record can get
TrackedIds(reg) == {reg[i].id : i \in 1..Len(reg)}

RecordIds ==
  {<<Intern(getRepoName(r)), Intern(substring0(Spell(s), ShortShaLen)), t>> :
     r \in Repos, s \in Shas, t \in 0..MaxSkewMs}

\* C16: every record that enters the registry is eventually removed from
\* it, when sessions keep being started, time advances and removal works
\* again and again.
C16_EveryRecordEventuallyRemoved ==
  \A id \in RecordIds :
    (id \in TrackedIds(registry)) ~> (id \notin TrackedIds(registry))

C16_Witness ==
  /\ last.op = "activate"
  /\ now > maxAgeMs
  /\ \E i \in 1..Len(last.trace) :
       /\ last.trace[i].step = "stale-old"
       /\ last.trace[i].path \notin TrackedPaths(registry)
       /\ exists(fs, RepoA) /\ exists(fs, RepoB)

\* the planned entries of the linking pass that has been made, each with the
\* type it is linked as
PlannedEntries ==
  {[rel |-> link.plan.files[i], type |-> "file"] :
     i \in 1..Len(link.plan.files)}
  \cup {[rel |-> link.plan.dirs[i], type |-> "directory"] :
          i \in 1..Len(link.plan.dirs)}

\* the entry is reported in the list
Reported(list, e) == displayNameOf(e.rel, e.type) \in Range(list)

\* C17: linking never overwrites: every planned file or directory whose
\* target path already exists in the checkout is reported in skipped, is not
\* reported in linked, and the entry at its target path is unchanged.
C17_LinkingNeverOverwrites ==
  link.phase = "done" =>
    \A e \in PlannedEntries :
      link.before[e.rel].kind # "none" =>
        /\ Reported(link.result.skipped, e)
        /\ ~ Reported(link.result.linked, e)
        /\ link.target[e.rel] = link.before[e.rel]
\* creating the link of planned entry e, or its parent directories, fails:
\* the target does not exist for fs.existsSync and the environment refuses
\* the link, or the name is taken by a dangling link, or a name on the way
\* is taken by something that is not a directory
CreationFails(e) ==
  /\ ~ existsSync(link.before, e.rel)
  /\ \/ e.rel \in link.faults
     \/ link.before[e.rel].kind # "none"
     \/ \E n \in 1..(Len(e.rel) - 1) :
          /\ link.before[SubSeq(e.rel, 1, n)].kind # "none"
          /\ ~ leadsToDirectory(link.before[SubSeq(e.rel, 1, n)])

\* how many elements of the list have the name
Occurrences(list, name) == Cardinality({i \in 1..Len(list) : list[i] = name})

\* C18: linking is best-effort: an entry whose link (or parent directory)
\* cannot be created is added to failed with exactly one warning, the call
\* does not raise, and every planned entry, also after the failed one, is
\* processed and reported.
C18_FailureIsCollected ==
  link.phase = "done" =>
    /\ ~ link.raised
    /\ \A e \in PlannedEntries :
         /\ \/ Reported(link.result.linked, e)
            \/ Reported(link.result.skipped, e)
            \/ Reported(link.result.failed, e)
         /\ CreationFails(e) =>
              /\ Occurrences(link.result.failed,
                             displayNameOf(e.rel, e.type)) = 1
              /\ Cardinality({i \in 1..Len(link.result.warnings) :
                    link.result.warnings[i].name =
                      displayNameOf(e.rel, e.type)}) = 1

\* the first planned file failed and the one after it was linked
C18_Witness ==
  /\ link.phase = "done"
  /\ Len(link.plan.files) >= 2
  /\ link.plan.files[1] \in link.faults
  /\ link.result.failed = <<displayNameOf(link.plan.files[1], "file")>>
  /\ Len(link.result.warnings) = 1
  /\ displayNameOf(link.plan.files[2], "file") \in Range(link.result.linked)
\* the relative path lies inside the root-level directory dir
Inside(rel, dir) == Len(rel) > 1 /\ <<rel[1]>> = dir

\* C19: no file located inside a directory selected for directory-level
\* linking appears among the files found by the recursive search.
C19_NoFileInsideLinkedDirectory ==
  link.phase = "done" =>
    \A i \in 1..Len(link.plan.files), j \in 1..Len(link.plan.dirs) :
      ~ Inside(link.plan.files[i], link.plan.dirs[j])

\* node_modules is selected, holds a file that matches a file pattern, and
\* the search has found files elsewhere
C19_Witness ==
  /\ link.phase = "done"
  /\ <<"node_modules">> \in Range(link.plan.dirs)
  /\ link.source.kind[<<"node_modules", ".npmrc">>] = "file"
  /\ someMatches(".npmrc", link.config.filesToLink)
  /\ <<"pkg", ".env">> \in Range(link.plan.files)
\* the directories above a relative path, the source directory included
Above(rel) == {SubSeq(rel, 1, n) : n \in 0..(Len(rel) - 1)}

\* the file can be listed: every directory above it can be read
Listable(rel) == \A d \in Above(rel) : d \notin link.source.unreadable

\* the path lies under a version-control metadata directory
UnderVcsMetadata(rel) == \E n \in 1..(Len(rel) - 1) : rel[n] = ".git"

\* C20: the file plan holds exactly the regular files, at any depth, whose
\* name matches a file pattern and that lie neither under a directory
\* selected for directory-level linking nor under a version-control
\* metadata directory, each as its path relative to the source directory.
C20_FilePlanIsExact ==
  link.phase = "done" =>
    \A p \in TreePaths :
      Listable(p) =>
        (p \in Range(link.plan.files) <=>
           /\ link.source.kind[p] = "file"
           /\ someMatches(p[Len(p)],
                          link.config.filesToLink
                            \o link.config.additionalPatternsToLink)
           /\ \A j \in 1..Len(link.plan.dirs) : ~ Inside(p, link.plan.dirs[j])
           /\ ~ UnderVcsMetadata(p))
\* the repository a createWorktree call was made for: the argument of its
\* first step
CallRepo(l) == l.trace[1].path

\* the records of an earlier createWorktree call for the same repository
\* and revision as the call that has just been made, whose checkout has not
\* been removed
EarlierRecords(reg, f, l) ==
  {i \in 1..Len(reg) :
     /\ reg[i].originalRepoPath = CallRepo(l)
     /\ reg[i].path = l.path
     /\ exists(f, reg[i].path)
     /\ exists(f, CallRepo(l))}

\* C21: a createWorktree call for a repository and revision for which an
\* earlier call has written a record, with no removal in between, fails in
\* the gateway with WORKTREE_ALREADY_EXISTS and leaves the registry as it
\* was, holding only the record of the first call for that checkout.
C21_SecondCreateAlreadyExists ==
  [][(last'.op = "createWorktree" /\ EarlierRecords(registry, fs, last') # {})
       => /\ last'.raised
          /\ last'.gateway = "WORKTREE_ALREADY_EXISTS"
          /\ last'.err = "WORKTREE_ALREADY_EXISTS"
          /\ registry' = registry
          /\ fs' = fs]_vars

\* the second call for the same repository and revision has failed and the
\* registry holds the one record of the first call
C21_Witness ==
  /\ last.op = "createWorktree"
  /\ last.gateway = "WORKTREE_ALREADY_EXISTS"
  /\ Len(registry) = 1
  /\ EarlierRecords(registry, fs, last) = {1}
\* the revision a createWorktree call was made for: the one whose short
\* form is in the path the call computed
CallSha(l) ==
  CHOOSE sha \in Shas :
    generateWorktreePath(getRepoName(CallRepo(l)),
                         substring0(Spell(sha), ShortShaLen), Undefined)
      = l.path

\* C22: createWorktree for a revision the repository does not have fails
\* with COMMIT_NOT_FOUND; the revision is verified before worktree add,
\* which is not run: no directory is created, the tool's worktree metadata
\* and the registry are unchanged.
C22_MissingRevisionNotFound ==
  [][(/\ last'.op = "createWorktree"
      /\ exists(fs, CallRepo(last'))
      /\ CallSha(last') \notin CommitsOf(CallRepo(last')))
       => /\ last'.raised
          /\ last'.err = "COMMIT_NOT_FOUND"
          /\ \E i \in 1..Len(last'.trace) :
               last'.trace[i].step = "revparse" /\ ~last'.trace[i].ok
          /\ \A i \in 1..Len(last'.trace) : last'.trace[i].step # "add"
          /\ registry' = registry
          /\ fs' = fs
          /\ gitMeta' = gitMeta]_vars

\* the call for a revision the second clone has not fetched has failed,
\* with another checkout tracked
C22_Witness ==
  /\ last.op = "createWorktree"
  /\ CallRepo(last) = RepoB
  /\ exists(fs, RepoB)
  /\ CallSha(last) = Sha2
  /\ last.err = "COMMIT_NOT_FOUND"
  /\ Len(registry) = 1
\* the worktree of the path is removed: no record, no directory, no pair
RemovedWithPairs(reg, f, ps, p) ==
  /\ p \notin TrackedPaths(reg)
  /\ ~ exists(f, p)
  /\ PairsTouching(ps, p) = {}

\* C23 as stated: deactivate in the window of a tracked worktree, with
\* autoCleanupOnClose enabled, removes the worktree and unregisters every
\* pair touching its path; otherwise it changes neither registry nor any
\* directory.
C23_DeactivateRemoves ==
  [][last'.op = "deactivate" =>
       IF last'.path \in TrackedPaths(registry) /\ last'.autoCleanup
       THEN RemovedWithPairs(registry', fs', pairs', last'.path)
       ELSE registry' = registry /\ pairs' = pairs /\ fs' = fs]_vars

\* C23 amended: with a tracked worktree and autoCleanupOnClose enabled,
\* deactivate removes the worktree and unregisters every pair touching its
\* path when removeWorktree returns; when removeWorktree raises, the error
\* is logged and neither registry nor any directory is changed.  In the
\* other cases nothing is changed.  deactivate itself never raises.
C23_DeactivateRemovesOrLogs ==
  [][last'.op = "deactivate" =>
       /\ ~ last'.raised
       /\ IF /\ last'.path \in TrackedPaths(registry)
             /\ last'.autoCleanup
             /\ ~ last'.logged
          THEN RemovedWithPairs(registry', fs', pairs', last'.path)
          ELSE registry' = registry /\ pairs' = pairs /\ fs' = fs]_vars

\* the window of a tracked checkout that had a pair was closed with
\* autoCleanupOnClose enabled; the checkout and the pair are gone and the
\* other checkout is still tracked
C23_Witness ==
  /\ last.op = "deactivate"
  /\ last.found
  /\ last.autoCleanup
  /\ ~ last.logged
  /\ last.paired
  /\ RemovedWithPairs(registry, fs, pairs, last.path)
  /\ Len(registry) = 1
\* the pair a precedes the pair b in the lexicographic order
LexBelow(a, b) == a[1] < b[1] \/ (a[1] = b[1] /\ a[2] < b[2])

PairsApart(ps, p) == (1..Len(ps)) \ PairsTouching(ps, p)

\* C25: unregisterWindowPair(path) removes every pair with the path on
\* either side and keeps every other pair, unchanged and in the same
\* relative order; when no pair touches the path the registry is unchanged.
C25_UnregisterRemovesExactly ==
  [][last'.op = "unregisterWindowPair" =>
       LET p == last'.path
           kept == PairsApart(pairs, p)
       IN /\ PairsTouching(pairs', p) = {}
          /\ Len(pairs') = Cardinality(kept)
          /\ \A i \in kept :
               pairs'[Cardinality({j \in kept : j <= i})] = pairs[i]
          /\ PairsTouching(pairs, p) = {} => pairs' = pairs
          /\ registry' = registry]_vars

\* a pair touching the path on its original side was removed and another
\* pair was kept
C25_Witness ==
  /\ last.op = "unregisterWindowPair"
  /\ last.paired
  /\ PairsTouching(pairs, last.path) = {}
  /\ Len(pairs) = 1
\* the other side of a pair, seen from the path
OppositeSide(pair, p) ==
  IF pair.originalPath = p THEN pair.worktreePath ELSE pair.originalPath

\* C26: getPartnerWindow(path) returns the opposite side of the first pair,
\* in registry order, that has the path on either side, returns undefined
\* when no pair has it, and does not modify the registry.
C26_PartnerOfFirstPair ==
  [][last'.op = "getPartnerWindow" =>
       LET p == last'.path
           hits == PairsTouching(pairs, p)
       IN /\ pairs' = pairs
          /\ hits = {} => last'.result = Undefined
          /\ \A i \in hits :
               (\A j \in hits : i <= j) =>
                 last'.result = OppositeSide(pairs[i], p)]_vars

\* the path is in two pairs with different partners and the partner of the
\* first one was returned
C26_Witness ==
  /\ last.op = "getPartnerWindow"
  /\ \E i, j \in PairsTouching(pairs, last.path) :
       /\ i < j
       /\ \A k \in PairsTouching(pairs, last.path) : i <= k
       /\ OppositeSide(pairs[i], last.path) # OppositeSide(pairs[j], last.path)
       /\ last.result = OppositeSide(pairs[i], last.path)
\* the display names of the planned files and of the planned directories
FileNames == {displayNameOf(link.plan.files[i], "file") :
                i \in 1..Len(link.plan.files)}
DirectoryNames == {displayNameOf(link.plan.dirs[i], "directory") :
                     i \in 1..Len(link.plan.dirs)}

\* in the list, every file entry comes before every directory entry
FilesFirst(list) ==
  \A i, j \in 1..Len(list) :
    (list[i] \in FileNames /\ list[j] \in DirectoryNames) => i < j

\* the source directory holds the file .env and the directory node_modules
\* with its files, nothing else, all readable; the checkout holds nothing in
\* the way; the configuration is the default one; no link is refused
EnvAndNodeModules ==
  /\ link.config = DefaultConfig
  /\ link.source.unreadable = {}
  /\ \A p \in TreePaths :
       link.source.kind[p] # "none" <=>
         p \in {<<".env">>, <<"node_modules">>, <<"node_modules", ".npmrc">>,
                <<"node_modules", "test.js">>}
  /\ link.source.kind[<<"node_modules">>] = "directory"
  /\ \A p \in TreePaths : link.before[p] = NoEntry
  /\ link.faults = {}

\* C27: in each of linked, skipped and failed every file entry precedes
\* every directory entry; with a source directory holding .env and
\* node_modules/test.js and the default patterns, linked is exactly
\* ['.env', 'node_modules/'].
C27_FilesBeforeDirectories ==
  link.phase = "done" =>
    /\ FilesFirst(link.result.linked)
    /\ FilesFirst(link.result.skipped)
    /\ FilesFirst(link.result.failed)
    /\ Range(link.result.linked) \cup Range(link.result.skipped)
         \cup Range(link.result.failed)
           = FileNames \cup DirectoryNames
    /\ EnvAndNodeModules =>
         link.result.linked =
           <<Spell(".env"), Spell("node_modules") \o <<"/">> >>

\* the scenario has been run and linked two entries
C27_Witness ==
  /\ link.phase = "done"
  /\ EnvAndNodeModules
  /\ Len(link.result.linked) = 2
\* the tree with every directory that cannot be read made an empty, readable
\* directory
AsEmpty(src) ==
  [kind |-> [p \in TreePaths |->
               IF \E d \in src.unreadable : d \in Above(p)
               THEN "none" ELSE src.kind[p]],
   unreadable |-> {}]

\* C28: a directory that cannot be read (or does not exist) is planned as an
\* empty one: the plan is the plan of the tree with that directory empty, so
\* an unreadable subdirectory contributes nothing and its siblings are still
\* searched; with the source directory itself unreadable linkConfigFiles
\* returns empty linked and failed lists and does not raise.
C28_UnreadableIsEmpty ==
  link.phase = "done" =>
    /\ link.plan = planOf(AsEmpty(link.source), link.config)
    /\ \A i \in 1..Len(link.plan.files) :
         Listable(link.plan.files[i])
    /\ <<>> \in link.source.unreadable =>
         /\ ~ link.raised
         /\ link.result.linked = <<>>
         /\ link.result.failed = <<>>

\* the package directory holds a matching file and cannot be read; the file
\* listed after it at the root has been planned and linked
C28_Witness ==
  /\ link.phase = "done"
  /\ <<"pkg">> \in link.source.unreadable
  /\ link.source.kind[<<"pkg", ".env">>] = "file"
  /\ <<"setup.ts">> \in Range(link.plan.files)
  /\ Spell("setup.ts") \in Range(link.result.linked)
  /\ <<"pkg", ".env">> \notin Range(link.plan.files)
\* both windows have completed their calls
BothDone == \A w \in Windows : procs[w].pc = "done"

\* both windows called removeWorktree on one path that was tracked
SameRemoval ==
  /\ \A w \in Windows : procs[w].op = "removeWorktree" /\ procs[w].tracked
  /\ procs["w1"].path = procs["w2"].path

\* C29 as stated: two windows call removeWorktree on the same tracked path
\* at once; under every interleaving neither call raises, and once both
\* have completed the registry holds no record for the path and the
\* checkout directory does not exist.
C29_RacingRemovals ==
  (SameRemoval /\ BothDone) =>
    /\ \A w \in Windows : ~ procs[w].raised
    /\ procs["w1"].path \notin TrackedPaths(registry)
    /\ ~ exists(fs, procs["w1"].path)

\* C29: two windows call removeWorktree on the same tracked path at once;
\* under every interleaving a call raises only after it found the record
\* and its own direct deletion failed (the untracked branch never raises
\* here); once both have completed and at least one of them has not raised,
\* the registry holds no record for the path and the checkout directory
\* does not exist.
C29_RacingRemovalsUnlessDeletionFails ==
  SameRemoval =>
    /\ \A w \in Windows :
         procs[w].raised => procs[w].worktree # Null /\ procs[w].pc = "done"
    /\ (BothDone /\ \E w \in Windows : ~ procs[w].raised) =>
         /\ procs["w1"].path \notin TrackedPaths(registry)
         /\ ~ exists(fs, procs["w1"].path)

\* both removals have completed without raising, each having found the
\* record and written the collection
C29_Witness ==
  /\ SameRemoval
  /\ BothDone
  /\ \A w \in Windows : ~ procs[w].raised /\ procs[w].worktree # Null
  /\ procs["w1"].path \notin TrackedPaths(registry)
\* the paths the call of a window is about
Touches(w) == {procs[w].path, procs[w].other} \ {NoPath}

\* the stored collections show the change the completed call of w made
Reflected(w) ==
  CASE procs[w].op = "createWorktree" ->
         ~ procs[w].raised => procs[w].path \in TrackedPaths(registry)
    [] procs[w].op = "removeWorktree" ->
         (~ procs[w].raised /\ procs[w].worktree # Null) =>
           procs[w].path \notin TrackedPaths(registry)
    [] procs[w].op = "registerWindowPair" ->
         \E i \in 1..Len(pairs) :
           /\ pairs[i].originalPath = procs[w].path
           /\ pairs[i].worktreePath = procs[w].other
    [] procs[w].op = "unregisterWindowPair" ->
         ~ isOriginalWindow(pairs, procs[w].path)
         /\ ~ isWorktreeWindow(pairs, procs[w].path)

\* C30: no registry update is lost between window processes: when one
\* window tracks or untracks (registers or unregisters) for one path while
\* the other does so for a different path, then after both have completed
\* the registry reflects both changes; an untracked record does not come
\* back through the other window's write.
C30_NoLostUpdate ==
  (BothDone /\ Touches("w1") \cap Touches("w2") = {}) =>
    \A w \in Windows : Reflected(w)
\* C31: a checkout whose window is open, the window whose own activation
\* runs the cleanup included, is never deleted or untracked by
\* cleanupStaleWorktrees: after activate() in the window of a tracked
\* checkout the record is still tracked and the directory still exists.
C31_OpenCheckoutSurvivesCleanup ==
  (last.op = "activate" /\ last.found) =>
    /\ last.path \in TrackedPaths(registry)
    /\ exists(fs, last.path)
\* the call recorded in l tried the three tiers and each of them raised
AllTiersFailed(l) ==
  /\ Len(l.trace) >= 4
  /\ l.trace[1] = Ev("lookup", l.path, TRUE)
  /\ l.trace[2] = Ev("graceful", l.path, FALSE)
  /\ l.trace[3] = Ev("forced", l.path, FALSE)
  /\ l.trace[4] = Ev("direct", l.path, FALSE)

\* C32: when graceful removal, forced removal and direct deletion all
\* raise for a tracked path, removeWorktree raises, neither prunes nor
\* untracks, and leaves the registry, the directory and the worktree
\* metadata as they were.
C32_AllTiersFailedRaises ==
  [][(last'.op = "removeWorktree" /\ AllTiersFailed(last')) =>
       /\ last'.raised
       /\ Len(last'.trace) = 4
       /\ registry' = registry
       /\ last'.path \in TrackedPaths(registry')
       /\ fs' = fs
       /\ gitMeta' = gitMeta]_vars

\* a removeWorktree whose three tiers raised has just ended, with another
\* record tracked besides the one it was called on
C32_Witness ==
  /\ last.op = "removeWorktree"
  /\ AllTiersFailed(last)
  /\ last.raised
  /\ Len(registry) = 2
  /\ exists(fs, last.path)
\* C33: partner lookup is symmetric in every reachable state of the pairing
\* registry: if getPartnerWindow(p) returns q then getPartnerWindow(q)
\* returns p.
C33_PartnerSymmetric ==
  \A p \in PairPaths :
    getPartnerWindow(pairs, p) # Undefined =>
      getPartnerWindow(pairs, getPartnerWindow(pairs, p)) = p
\* the steps of the try block of selectCommitCommand, in order
FlowSteps ==
  <<"createWorktree", "linkConfigFiles", "registerWindowPair", "openFolder">>

\* the store holds the record of the checkout of the running flow
FlowRecorded == last.path \in TrackedPaths(registry)

\* the store holds the pair of the running flow
FlowPaired ==
  \E i \in 1..Len(pairs) :
    pairs[i].originalPath = last.repo /\ pairs[i].worktreePath = last.path

\* where the running flow stands, step by step
FlowOrdered ==
  last.op = "selectCommit" =>
    /\ last.steps = SubSeq(FlowSteps, 1, Len(last.steps))
    /\ last.pc = "created" => Len(last.steps) = 1 /\ FlowRecorded
    /\ link.phase = "done" =>
         /\ last.pc \in {"linked", "registered", "opened"}
         /\ FlowRecorded
    /\ last.pc = "linked" => Len(last.steps) = 2 /\ ENABLED FlowRegister
    /\ last.pc = "registered" =>
         /\ Len(last.steps) = 3
         /\ FlowRecorded /\ FlowPaired
         /\ ENABLED FlowOpen
    /\ last.pc = "opened" =>
         /\ last.steps = FlowSteps
         /\ last.opened = last.path
         /\ FlowRecorded /\ FlowPaired
         /\ link.phase = "done"
    /\ last.pc = "failed" =>
         /\ last.steps = <<"createWorktree">>
         /\ last.opened \in {NoPath} \cup TrackedPaths(registry)
         /\ last.opened # NoPath => last.err = "WORKTREE_ALREADY_EXISTS"

\* a createWorktree that raised has written no record and no pair, and
\* the flow then only returns
FlowFailureStep ==
  /\ (last'.op = "selectCommit" /\ last'.pc = "failed") =>
       /\ pairs' = pairs
       /\ registry' = registry
  /\ (last.op = "selectCommit" /\ last.pc = "failed") =>
       /\ pairs' = pairs
       /\ last' = Idle

\* C34: in the select-commit flow the steps are create the checkout, write
\* the record, link, register the pair, open the window, in this order:
\* when the window is opened the store holds the record and the pair; a
\* linking failure does not keep the flow from registering the pair and
\* opening the window; when createWorktree fails no pair is registered and
\* no window is opened for a new checkout.
C34_FlowOrder == []FlowOrdered /\ [][FlowFailureStep]_vars

\* the window has been opened after a linking pass with a failed entry
C34_Witness ==
  /\ last.op = "selectCommit"
  /\ last.pc = "opened"
  /\ link.result.failed # <<>>
  /\ FlowPaired
\* the pairs of ps that hold path p on a side
PairsHolding(ps, p) ==
  {i \in 1..Len(ps) : ps[i].originalPath = p \/ ps[i].worktreePath = p}

\* C35: a dangling pair is reconciled on use: when quickSwitch is invoked
\* from a path whose partner directory no longer exists, every pair
\* touching the current path is unregistered, the other pairs are kept and
\* no window is opened; when the partner directory exists the pairing
\* registry is left unchanged and the partner is opened.
C35_QuickSwitchReconciles ==
  [][last'.op = "quickSwitch" =>
       LET partnerPath == getPartnerWindow(pairs, last'.path)
       IN /\ partnerPath = Undefined =>
               pairs' = pairs /\ last'.opened = NoPath
          /\ (partnerPath # Undefined /\ ~ exists(fs, partnerPath)) =>
               /\ PairsHolding(pairs', last'.path) = {}
               /\ pairs' = SelectSeq(pairs,
                             LAMBDA q : /\ q.originalPath # last'.path
                                        /\ q.worktreePath # last'.path)
               /\ last'.opened = NoPath
          /\ (partnerPath # Undefined /\ exists(fs, partnerPath)) =>
               /\ pairs' = pairs
               /\ last'.opened = partnerPath]_vars

\* quick switch from a repository window has found the partner checkout
\* gone and has unregistered the pair
C35_Witness ==
  /\ last.op = "quickSwitch"
  /\ last.gone
  /\ last.path \in Repos
  /\ last.partner \in CheckoutPaths
  /\ ~ exists(fs, last.partner)
  /\ PairsHolding(pairs, last.path) = {}
  /\ last.opened = NoPath
\* C36: each planned file and directory is reported in exactly one of
\* linked, skipped and failed, exactly once; the three lists are pairwise
\* disjoint and report nothing else; the number of warnings equals the
\* number of failed entries.
C36_ReportedExactlyOnce ==
  link.phase = "done" =>
    /\ \A e \in PlannedEntries :
         Occurrences(link.result.linked, displayNameOf(e.rel, e.type))
         + Occurrences(link.result.skipped, displayNameOf(e.rel, e.type))
         + Occurrences(link.result.failed, displayNameOf(e.rel, e.type)) = 1
    /\ Range(link.result.linked) \cap Range(link.result.skipped) = {}
    /\ Range(link.result.linked) \cap Range(link.result.failed) = {}
    /\ Range(link.result.skipped) \cap Range(link.result.failed) = {}
    /\ Len(link.result.linked) + Len(link.result.skipped)
       + Len(link.result.failed) = Cardinality(PlannedEntries)
    /\ Len(link.result.warnings) = Len(link.result.failed)

\* a pass has ended with an entry in each of the three lists
C36_Witness ==
  /\ link.phase = "done"
  /\ link.result.linked # <<>>
  /\ link.result.skipped # <<>>
  /\ link.result.failed # <<>>
  /\ Len(link.result.warnings) = Len(link.result.failed)
\* sequence a is sequence b with some elements taken out: from a[i] and
\* b[j] on
RECURSIVE RemainsOf(_, _, _, _)
RemainsOf(a, i, b, j) ==
  IF i > Len(a) THEN TRUE
  ELSE IF j > Len(b) THEN FALSE
  ELSE IF a[i] = b[j] THEN RemainsOf(a, i + 1, b, j + 1)
  ELSE RemainsOf(a, i, b, j + 1)

\* one whole record has been added at the end
AppendedOne(before, after) ==
  /\ Len(after) = Len(before) + 1
  /\ SubSeq(after, 1, Len(before)) = before

\* C37: records are immutable once created: every operation of the
\* worktree manager changes the registry only by appending one whole new
\* record at the end or by removing whole records; the fields of the records
\* that remain and their relative order never change.
C37_RecordsImmutable ==
  [][\/ AppendedOne(registry, registry')
     \/ RemainsOf(registry', 1, registry, 1)]_vars

\* a removal has taken one of two records out and left the other
C37_Witness ==
  /\ last.op = "removeWorktree"
  /\ last.found
  /\ ~ last.raised
  /\ Len(registry) = 1
  /\ registry[1].path # last.path
====
